---- MODULE Spec2Model ----
(***************************************************************************)
(* XSO Lock: the session-lock control plane of the kiosk overlay.          *)
(* Token store, credential verification, scan / hook / admin-reset         *)
(* handlers, the force-relock hotkey and the startup orphan recovery of    *)
(* the admin-capable main process.                                         *)
(*                                                                         *)
(* Strings that the code splits are modelled by their pieces: a payload is *)
(* the sequence payload.split("|"), a "from" value is the sequence         *)
(* String(from).split(",").  Time is Date.now() in milliseconds.           *)
(***************************************************************************)
EXTENDS Integers, Sequences, FiniteSets, TLC

VARIABLES
  tokens,              \* in-memory token store (array of records)
  file,                \* tokens.json on disk
  currentTokenId,      \* uuid currently IN_USE, or Null
  unlockedAtMs,        \* when the overlay hid
  adminSessionActive,  \* true when the Admin QR unlocked
  winVisible,          \* the overlay window is shown (station locked)
  now,                 \* Date.now()
  pc,                  \* "boot" before app.whenReady ran, "running" after
  cfg,                 \* the values require("./config") gave
  writable,            \* what fs.writeFileSync on tokens.json does: "yes" or how it fails
  resets               \* how many admin resets were carried out

vars == <<tokens, file, currentTokenId, unlockedAtMs, adminSessionActive,
          winVisible, now, pc, cfg, writable, resets>>

\* ------------------------------------------------------------ JS values
Null == "<null>"
Undefined == "<undefined>"
Truthy(v) == v \notin {Null, Undefined, ""}

\* ------------------------------------------------------------ bounds
MaxTicks == 2
MaxResets == 1
MaxIssued == 2

\* ------------------------------------------------------------ config
MIN_SECONDS_BEFORE_SESSION_END == 3
BATCH_ID == "B2025-09-08-A"
HMAC_SECRET == "XSO_TEST_SECRET_2025"
OtherBatch == "B2025-09-09-B"
AdminUuid == "uuid-admin"

\* module.exports of config.js as given: no ADMIN_* keys, no hook secret
ConfigDefault ==
  [ DEV_ACCEPT_LISTED_TOKENS |-> TRUE,
    HOOK_SECRET   |-> "",
    ADMIN_ENABLED |-> Undefined,
    ADMIN_PIN     |-> Undefined,
    ADMIN_QR_UUID |-> Undefined ]

\* a deployment with the admin keys and the hook secret set
ConfigAdmin ==
  [ DEV_ACCEPT_LISTED_TOKENS |-> FALSE,
    HOOK_SECRET   |-> "MYSECRET",
    ADMIN_ENABLED |-> "true",
    ADMIN_PIN     |-> "4321",
    ADMIN_QR_UUID |-> AdminUuid ]

\* admin interface switched on, no pin and no Admin QR configured
ConfigNoPin ==
  [ DEV_ACCEPT_LISTED_TOKENS |-> TRUE,
    HOOK_SECRET   |-> "",
    ADMIN_ENABLED |-> "true",
    ADMIN_PIN     |-> Undefined,
    ADMIN_QR_UUID |-> Undefined ]

Configs == {ConfigDefault, ConfigAdmin, ConfigNoPin}

\* ------------------------------------------------------------ credentials
\* crypto.createHmac("sha256", secret).update(`${batch}.${uuid}`).digest(), b64url'd
sign(batch, uuid, secret) == "mac[" \o secret \o "](" \o batch \o "." \o uuid \o ")"

\* `ciu:1|${BATCH_ID}|${uuid}|${sig}` as its "|"-separated pieces
MakePayload(batch, uuid, secret) == <<"ciu:1", batch, uuid, sign(batch, uuid, secret)>>

\* the token record generate-qr.js pushes
NewToken(uuid, batch) ==
  [ uuid |-> uuid, batch_id |-> batch,
    payload |-> MakePayload(batch, uuid, HMAC_SECRET),
    status |-> "ISSUED", claimed_at |-> Null, completed_at |-> Null,
    created_at |-> "T0" ]

\* a code printed while HMAC_SECRET had another value: listed, signature stale
OldSecret == "XSO_OLD_SECRET"

StaleToken(uuid, batch) ==
  [NewToken(uuid, batch) EXCEPT !.payload = MakePayload(batch, uuid, OldSecret)]

\* tokens.json after generate-qr.js ran: two codes of the station's batch, one code
\* of the station's batch and one of another batch, or one current and one stale code
IssuedStores ==
  { << NewToken("uuid-1", BATCH_ID), NewToken("uuid-2", BATCH_ID) >>,
    << NewToken("uuid-1", BATCH_ID), NewToken("uuid-3", OtherBatch) >>,
    << NewToken("uuid-1", BATCH_ID), StaleToken("uuid-4", BATCH_ID) >> }

\* tokens.json: missing, blank, unparseable, or a JSON array of records
FileMissing == [kind |-> "missing", doc |-> <<>>]
FileBlank   == [kind |-> "blank",   doc |-> <<>>]
FileCorrupt == [kind |-> "corrupt", doc |-> <<>>]
FileJson(doc) == [kind |-> "json", doc |-> doc]

InitialFiles == {FileMissing, FileBlank, FileCorrupt} \cup {FileJson(st) : st \in IssuedStores}

\* ------------------------------------------------------------ utils
\* the clock advances in steps of the grace window; at boot Date.now() is far past
\* the grace window measured from unlockedAtMs = 0
TickMs == MIN_SECONDS_BEFORE_SESSION_END * 1000
BootNowMs == 2 * MIN_SECONDS_BEFORE_SESSION_END * 1000
MaxNowMs == BootNowMs + MaxTicks * TickMs

nowISO == "T" \o ToString(now)

FirstIdx(S) == IF S = {} THEN 0 ELSE CHOOSE i \in S : \A j \in S : i <= j

\* safeLoadJson(TOKENS_FILE, [])
safeLoadJson(f) == IF f.kind = "json" THEN f.doc ELSE <<>>

\* how a write of tokens.json fails: the file cannot be opened (locked, read-only),
\* or it is opened with flag "w", which empties it, and the write then breaks off
\* with nothing or with a part of the text in the file (disk full, I/O error)
WriteFailures == {"denied", "emptied", "cut"}

\* fs.writeFileSync(TOKENS_FILE, ...) inside try/catch
WriteFile(f, doc) ==
  CASE writable = "yes"     -> FileJson(doc)
    [] writable = "denied"  -> f
    [] writable = "emptied" -> FileBlank
    [] OTHER                -> FileCorrupt

\* the file after loadTokens(): "[]" is written over a missing or blank file
loadTokensFile(f) == IF f.kind \in {"missing", "blank"} THEN WriteFile(f, <<>>) ELSE f

\* the file after saveTokens() of the collection toks
saveTokens(toks, f) == WriteFile(f, toks)

\* the module-level state of the main process, as one value
Mem == [tokens |-> tokens, file |-> file, currentTokenId |-> currentTokenId,
        unlockedAtMs |-> unlockedAtMs, adminSessionActive |-> adminSessionActive,
        winVisible |-> winVisible]

\* a handler ran to completion and left the state m
Commit(m) ==
  /\ tokens' = m.tokens
  /\ file' = m.file
  /\ currentTokenId' = m.currentTokenId
  /\ unlockedAtMs' = m.unlockedAtMs
  /\ adminSessionActive' = m.adminSessionActive
  /\ winVisible' = m.winVisible

\* showOverlay() / hideOverlay() on the window createWindow() made
showOverlay(m) == [m EXCEPT !.winVisible = TRUE]
hideOverlay(m) == [m EXCEPT !.winVisible = FALSE]

\* ------------------------------------------------------------ Init
Init ==
  /\ tokens = <<>>
  /\ file \in InitialFiles
  /\ currentTokenId = Null
  /\ unlockedAtMs = 0
  /\ adminSessionActive = FALSE
  /\ winVisible = FALSE
  /\ now = BootNowMs
  /\ pc = "boot"
  /\ cfg \in Configs
  /\ writable = "yes"
  /\ resets = 0

\* orphan recovery that hands the interrupted code out again
ReconcileToIssued(toks) ==
  [i \in DOMAIN toks |->
     IF toks[i].status = "IN_USE" THEN [toks[i] EXCEPT !.status = "ISSUED"] ELSE toks[i]]


\* orphan recovery that throws the interrupted codes away
ReconcileDropsOrphans(toks) ==
  LET kept(t) == t.status # "IN_USE" IN SelectSeq(toks, kept)

\* orphan recovery of app.whenReady
Reconcile(toks) ==
  [i \in DOMAIN toks |->
     IF toks[i].status = "IN_USE" THEN [toks[i] EXCEPT !.status = "CANCELLED"] ELSE toks[i]]

\* orphan recovery in memory only: the saveTokens() call is missing
whenReadyNoSave(m) ==
  [m EXCEPT !.tokens = [i \in DOMAIN safeLoadJson(m.file) |->
                          IF safeLoadJson(m.file)[i].status = "IN_USE"
                          THEN [safeLoadJson(m.file)[i] EXCEPT !.status = "CANCELLED"]
                          ELSE safeLoadJson(m.file)[i]],
            !.file = loadTokensFile(m.file),
            !.winVisible = TRUE]

\* loadTokens(); orphan recovery; createWindow()
whenReady(m) ==
  LET loaded  == safeLoadJson(m.file)
      f1      == loadTokensFile(m.file)
      changed == \E i \in DOMAIN loaded : loaded[i].status = "IN_USE"
      recon   == Reconcile(loaded)
  IN [m EXCEPT !.tokens = recon,
               !.file = IF changed THEN saveTokens(recon, f1) ELSE f1,
               !.winVisible = TRUE]

\* app.whenReady().then(...)
Startup ==
  /\ pc = "boot"
  /\ Commit(whenReady(Mem))
  /\ pc' = "running"
  /\ UNCHANGED <<now, cfg, writable, resets>>

\* the process dies (crash, quit, power loss); the module state is gone, the file stays
Crash ==
  /\ pc = "running"
  /\ tokens' = <<>>
  /\ currentTokenId' = Null
  /\ unlockedAtMs' = 0
  /\ adminSessionActive' = FALSE
  /\ winVisible' = FALSE
  /\ pc' = "boot"
  /\ UNCHANGED <<file, now, cfg, writable, resets>>

Tick ==
  /\ now < MaxNowMs
  /\ now' = now + TickMs
  /\ UNCHANGED <<tokens, file, currentTokenId, unlockedAtMs, adminSessionActive,
                 winVisible, pc, cfg, writable, resets>>

\* ------------------------------------------------------------ verify
\* payload.startsWith("ciu:1|") on the pieces of the payload
startsWithTag(p) == Len(p) >= 2 /\ p[1] = "ciu:1"

Verdict(ok, err, batch, uuid) == [ok |-> ok, err |-> err, batch |-> batch, uuid |-> uuid]

\* tokens.find(x => x.uuid === uuid && x.batch_id === batch && x.payload === payload)
listedToken(toks, p) ==
  \E i \in DOMAIN toks : toks[i].uuid = p[3] /\ toks[i].batch_id = p[2] /\ toks[i].payload = p



\* verifyPayload looking the payload up in the store before it compares the batch
verifyPayloadListedFirst(toks, p) ==
  IF ~startsWithTag(p) THEN Verdict(FALSE, "invalid_format", Null, Null)
  ELSE IF Len(p) # 4 THEN Verdict(FALSE, "invalid_parts", Null, Null)
  ELSE IF cfg.DEV_ACCEPT_LISTED_TOKENS /\ listedToken(toks, p) THEN Verdict(TRUE, "", p[2], p[3])
  ELSE IF p[2] # BATCH_ID THEN Verdict(FALSE, "batch_mismatch", Null, Null)
  ELSE IF p[4] # sign(p[2], p[3], HMAC_SECRET) THEN Verdict(FALSE, "bad_signature", Null, Null)
  ELSE Verdict(TRUE, "", p[2], p[3])

\* verifyPayload comparing the signature before the batch
verifyPayloadSigFirst(toks, p) ==
  IF ~startsWithTag(p) THEN Verdict(FALSE, "invalid_format", Null, Null)
  ELSE IF Len(p) # 4 THEN Verdict(FALSE, "invalid_parts", Null, Null)
  ELSE IF cfg.DEV_ACCEPT_LISTED_TOKENS /\ listedToken(toks, p) /\ p[2] = BATCH_ID
    THEN Verdict(TRUE, "", p[2], p[3])
  ELSE IF p[4] # sign(p[2], p[3], HMAC_SECRET) THEN Verdict(FALSE, "bad_signature", Null, Null)
  ELSE IF p[2] # BATCH_ID THEN Verdict(FALSE, "batch_mismatch", Null, Null)
  ELSE Verdict(TRUE, "", p[2], p[3])

verifyPayload(toks, p) ==
  IF ~startsWithTag(p) THEN Verdict(FALSE, "invalid_format", Null, Null)
  ELSE IF Len(p) # 4 THEN Verdict(FALSE, "invalid_parts", Null, Null)
  ELSE IF p[2] # BATCH_ID THEN Verdict(FALSE, "batch_mismatch", Null, Null)
  ELSE IF cfg.DEV_ACCEPT_LISTED_TOKENS /\ listedToken(toks, p) THEN Verdict(TRUE, "", p[2], p[3])
  ELSE IF p[4] # sign(p[2], p[3], HMAC_SECRET) THEN Verdict(FALSE, "bad_signature", Null, Null)
  ELSE Verdict(TRUE, "", p[2], p[3])

\* the message the scan endpoint maps a verify error to
scanErrorText(err) ==
  CASE err = "invalid_format" -> "QR tidak dikenal"
    [] err = "invalid_parts"  -> "QR tidak dikenal"
    [] err = "batch_mismatch" -> "QR bukan untuk event ini"
    [] err = "bad_signature"  -> "QR tidak valid"
    [] OTHER -> "Invalid QR"

\* ------------------------------------------------------------ finalize
\* finalizeCurrent without "currentTokenId = null" after a status change
finalizeCurrentKeepsPointer(m, outcome) ==
  LET idx == FirstIdx({i \in DOMAIN m.tokens : m.tokens[i].uuid = m.currentTokenId}) IN
  IF ~Truthy(m.currentTokenId) THEN [st |-> m, changed |-> FALSE]
  ELSE IF idx = 0 THEN [st |-> [m EXCEPT !.currentTokenId = Null], changed |-> FALSE]
  ELSE IF m.tokens[idx].status = "IN_USE" THEN
    LET status == IF outcome = "COMPLETED" THEN "COMPLETED" ELSE "CANCELLED"
        nt == [m.tokens EXCEPT
                 ![idx].status = status,
                 ![idx].completed_at = IF status = "COMPLETED" THEN nowISO ELSE Null]
    IN [st |-> [m EXCEPT !.tokens = nt, !.file = saveTokens(nt, m.file)], changed |-> TRUE]
  ELSE [st |-> [m EXCEPT !.currentTokenId = Null], changed |-> FALSE]


\* finalizeCurrent without the saveTokens() call
finalizeCurrentNoSave(m, outcome) ==
  LET idx == FirstIdx({i \in DOMAIN m.tokens : m.tokens[i].uuid = m.currentTokenId}) IN
  IF ~Truthy(m.currentTokenId) THEN [st |-> m, changed |-> FALSE]
  ELSE IF idx = 0 THEN [st |-> [m EXCEPT !.currentTokenId = Null], changed |-> FALSE]
  ELSE IF m.tokens[idx].status = "IN_USE" THEN
    LET status == IF outcome = "COMPLETED" THEN "COMPLETED" ELSE "CANCELLED"
        nt == [m.tokens EXCEPT
                 ![idx].status = status,
                 ![idx].completed_at = IF status = "COMPLETED" THEN nowISO ELSE Null]
    IN [st |-> [m EXCEPT !.tokens = nt, !.currentTokenId = Null], changed |-> TRUE]
  ELSE [st |-> [m EXCEPT !.currentTokenId = Null], changed |-> FALSE]

\* finalizeCurrent(outcome) run in state m: the state it leaves and its return value
finalizeCurrent(m, outcome) ==
  LET idx == FirstIdx({i \in DOMAIN m.tokens : m.tokens[i].uuid = m.currentTokenId}) IN
  IF ~Truthy(m.currentTokenId) THEN [st |-> m, changed |-> FALSE]
  ELSE IF idx = 0 THEN [st |-> [m EXCEPT !.currentTokenId = Null], changed |-> FALSE]
  ELSE IF m.tokens[idx].status = "IN_USE" THEN
    LET status == IF outcome = "COMPLETED" THEN "COMPLETED" ELSE "CANCELLED"
        nt == [m.tokens EXCEPT
                 ![idx].status = status,
                 ![idx].completed_at = IF status = "COMPLETED" THEN nowISO ELSE Null]
    IN [st |-> [m EXCEPT !.tokens = nt, !.file = saveTokens(nt, m.file),
                         !.currentTokenId = Null],
        changed |-> TRUE]
  ELSE [st |-> [m EXCEPT !.currentTokenId = Null], changed |-> FALSE]

\* ------------------------------------------------------------ POST /api/qr/scan
ScanPayloads ==
  { st[i].payload : st \in IssuedStores, i \in {1, 2} } \cup
  { MakePayload(BATCH_ID, AdminUuid, HMAC_SECRET),       \* the Admin QR
    MakePayload(BATCH_ID, "uuid-9", HMAC_SECRET),        \* signed, not in the store
    <<"ciu:1", BATCH_ID, "uuid-1", "forged">>,           \* bad signature
    <<"ciu:1", OtherBatch, "uuid-1", "forged">>,         \* other batch and bad signature
    <<"ciu:1", OtherBatch, "uuid-1">>,                   \* other batch and three parts
    <<"ciu:2", BATCH_ID, "uuid-1", "forged">>,           \* another tag
    <<"ciu:1", BATCH_ID, "uuid-1">>,                     \* three parts
    <<>> }                                               \* no payload in the body

ScanReply(st, code, error, token_id, admin) ==
  [st |-> st, code |-> code, error |-> error, token_id |-> token_id, admin |-> admin]


\* the Admin QR branch refusing a rescan while the admin session is on
scanAdminOnce(m) ==
  IF m.adminSessionActive THEN ScanReply(m, 409, "QR sedang dipakai", Null, FALSE)
  ELSE ScanReply([hideOverlay([m EXCEPT !.adminSessionActive = TRUE, !.currentTokenId = Null])
                    EXCEPT !.unlockedAtMs = now],
                 200, "", Null, TRUE)

\* the Admin QR branch
scanAdmin(m) ==
  ScanReply([hideOverlay([m EXCEPT !.adminSessionActive = TRUE, !.currentTokenId = Null])
               EXCEPT !.unlockedAtMs = now],
            200, "", Null, TRUE)

\* the Guest QR branch without the COMPLETED check: a used code is claimed again
scanGuestReusable(m, v) ==
  LET idx == FirstIdx({i \in DOMAIN m.tokens :
                         m.tokens[i].uuid = v.uuid /\ m.tokens[i].batch_id = v.batch}) IN
  IF idx = 0 THEN ScanReply(m, 400, "QR tidak dikenal", Null, FALSE)
  ELSE IF m.tokens[idx].status = "IN_USE" THEN
    ScanReply(m, 409, "QR sedang dipakai", Null, FALSE)
  ELSE IF m.tokens[idx].status \notin {"ISSUED", "COMPLETED"} THEN
    ScanReply(m, 409, "QR tidak dalam status ISSUED", Null, FALSE)
  ELSE
    LET nt == [m.tokens EXCEPT ![idx].status = "IN_USE", ![idx].claimed_at = nowISO] IN
    ScanReply([hideOverlay([m EXCEPT !.tokens = nt, !.file = saveTokens(nt, m.file),
                                     !.adminSessionActive = FALSE,
                                     !.currentTokenId = m.tokens[idx].uuid])
                 EXCEPT !.unlockedAtMs = now],
              200, "", m.tokens[idx].uuid, FALSE)


\* the Guest QR branch stamping claimed_at before the status checks
scanGuestStampsFirst(m, v) ==
  LET idx == FirstIdx({i \in DOMAIN m.tokens :
                         m.tokens[i].uuid = v.uuid /\ m.tokens[i].batch_id = v.batch})
      mt  == [m EXCEPT !.tokens = [m.tokens EXCEPT ![idx].claimed_at = nowISO]]
  IN
  IF idx = 0 THEN ScanReply(m, 400, "QR tidak dikenal", Null, FALSE)
  ELSE IF m.tokens[idx].status = "COMPLETED" THEN
    ScanReply(mt, 409, "QR sudah digunakan", Null, FALSE)
  ELSE IF m.tokens[idx].status = "IN_USE" THEN
    ScanReply(mt, 409, "QR sedang dipakai", Null, FALSE)
  ELSE IF m.tokens[idx].status # "ISSUED" THEN
    ScanReply(mt, 409, "QR tidak dalam status ISSUED", Null, FALSE)
  ELSE
    LET nt == [m.tokens EXCEPT ![idx].status = "IN_USE", ![idx].claimed_at = nowISO] IN
    ScanReply([hideOverlay([m EXCEPT !.tokens = nt, !.file = saveTokens(nt, m.file),
                                     !.adminSessionActive = FALSE,
                                     !.currentTokenId = m.tokens[idx].uuid])
                 EXCEPT !.unlockedAtMs = now],
              200, "", m.tokens[idx].uuid, FALSE)


\* the Guest QR branch leaving the admin flag as it was
scanGuestKeepsAdmin(m, v) ==
  LET idx == FirstIdx({i \in DOMAIN m.tokens :
                         m.tokens[i].uuid = v.uuid /\ m.tokens[i].batch_id = v.batch}) IN
  IF idx = 0 THEN ScanReply(m, 400, "QR tidak dikenal", Null, FALSE)
  ELSE IF m.tokens[idx].status = "COMPLETED" THEN
    ScanReply(m, 409, "QR sudah digunakan", Null, FALSE)
  ELSE IF m.tokens[idx].status = "IN_USE" THEN
    ScanReply(m, 409, "QR sedang dipakai", Null, FALSE)
  ELSE IF m.tokens[idx].status # "ISSUED" THEN
    ScanReply(m, 409, "QR tidak dalam status ISSUED", Null, FALSE)
  ELSE
    LET nt == [m.tokens EXCEPT ![idx].status = "IN_USE", ![idx].claimed_at = nowISO] IN
    ScanReply([hideOverlay([m EXCEPT !.tokens = nt, !.file = saveTokens(nt, m.file),
                                     !.currentTokenId = m.tokens[idx].uuid])
                 EXCEPT !.unlockedAtMs = now],
              200, "", m.tokens[idx].uuid, FALSE)


\* the Guest QR branch unlocking for a verified code the store does not hold
scanGuestAdoptsUnknown(m, v) ==
  LET idx == FirstIdx({i \in DOMAIN m.tokens :
                         m.tokens[i].uuid = v.uuid /\ m.tokens[i].batch_id = v.batch}) IN
  IF idx = 0 THEN
    ScanReply([hideOverlay([m EXCEPT !.adminSessionActive = FALSE, !.currentTokenId = v.uuid])
                 EXCEPT !.unlockedAtMs = now],
              200, "", v.uuid, FALSE)
  ELSE IF m.tokens[idx].status = "COMPLETED" THEN
    ScanReply(m, 409, "QR sudah digunakan", Null, FALSE)
  ELSE IF m.tokens[idx].status = "IN_USE" THEN
    ScanReply(m, 409, "QR sedang dipakai", Null, FALSE)
  ELSE IF m.tokens[idx].status # "ISSUED" THEN
    ScanReply(m, 409, "QR tidak dalam status ISSUED", Null, FALSE)
  ELSE
    LET nt == [m.tokens EXCEPT ![idx].status = "IN_USE", ![idx].claimed_at = nowISO] IN
    ScanReply([hideOverlay([m EXCEPT !.tokens = nt, !.file = saveTokens(nt, m.file),
                                     !.adminSessionActive = FALSE,
                                     !.currentTokenId = m.tokens[idx].uuid])
                 EXCEPT !.unlockedAtMs = now],
              200, "", m.tokens[idx].uuid, FALSE)

\* the Guest QR branch, for a verified payload
scanGuest(m, v) ==
  LET idx == FirstIdx({i \in DOMAIN m.tokens :
                         m.tokens[i].uuid = v.uuid /\ m.tokens[i].batch_id = v.batch}) IN
  IF idx = 0 THEN ScanReply(m, 400, "QR tidak dikenal", Null, FALSE)
  ELSE IF m.tokens[idx].status = "COMPLETED" THEN
    ScanReply(m, 409, "QR sudah digunakan", Null, FALSE)
  ELSE IF m.tokens[idx].status = "IN_USE" THEN
    ScanReply(m, 409, "QR sedang dipakai", Null, FALSE)
  ELSE IF m.tokens[idx].status # "ISSUED" THEN
    ScanReply(m, 409, "QR tidak dalam status ISSUED", Null, FALSE)
  ELSE
    LET nt == [m.tokens EXCEPT ![idx].status = "IN_USE", ![idx].claimed_at = nowISO] IN
    ScanReply([hideOverlay([m EXCEPT !.tokens = nt, !.file = saveTokens(nt, m.file),
                                     !.adminSessionActive = FALSE,
                                     !.currentTokenId = m.tokens[idx].uuid])
                 EXCEPT !.unlockedAtMs = now],
              200, "", m.tokens[idx].uuid, FALSE)

\* the handler of POST /api/qr/scan run in state m: the state it leaves and its response
scan(m, p) ==
  LET v == verifyPayload(m.tokens, p) IN
  IF ~v.ok THEN ScanReply(m, 400, scanErrorText(v.err), Null, FALSE)
  ELSE IF Truthy(cfg.ADMIN_QR_UUID) /\ v.uuid = cfg.ADMIN_QR_UUID THEN scanAdmin(m)
  ELSE scanGuest(m, v)

Scan(p) ==
  /\ pc = "running"
  /\ Commit(scan(Mem, p).st)
  /\ UNCHANGED <<now, pc, cfg, writable, resets>>

\* ------------------------------------------------------------ GET /hook
\* String(x).toLowerCase() on the event names the hook can be sent
toLowerCase(s) == IF s = "SESSION_END" THEN "session_end" ELSE s

HookQueryEvents == {"", "session_end", "SESSION_END", "countdown"}
HookPathEvents == {"", "session_end"}
HookSecrets == {"", "MYSECRET", "WRONG"}

\* event = pathEvent || qEvent: the path piece wins over the query
hookEventPathFirst(q, w) == IF toLowerCase(w) # "" THEN toLowerCase(w) ELSE toLowerCase(q)

\* event = qEvent || pathEvent
hookEvent(q, w) == IF toLowerCase(q) # "" THEN toLowerCase(q) ELSE toLowerCase(w)

\* the grace window compared with > instead of >=
oldEnoughStrict(m) == (now - m.unlockedAtMs) > MIN_SECONDS_BEFORE_SESSION_END * 1000


\* no grace window: a notification counts as soon as a session is armed
oldEnoughAlways(m) == now - m.unlockedAtMs >= 0

\* (Date.now() - unlockedAtMs) / 1000 >= MIN_SECONDS_BEFORE_SESSION_END
oldEnough(m) == (now - m.unlockedAtMs) >= MIN_SECONDS_BEFORE_SESSION_END * 1000

HookReply(st, code, body, log) == [st |-> st, code |-> code, body |-> body, log |-> log]


\* the session_end branch whose admin path also closes the interrupted guest sessions
hookSessionEndSweeps(m) ==
  IF m.adminSessionActive /\ oldEnough(m) THEN
    LET nt == [i \in DOMAIN m.tokens |->
                 IF m.tokens[i].status = "IN_USE"
                 THEN [m.tokens[i] EXCEPT !.status = "CANCELLED"] ELSE m.tokens[i]]
    IN HookReply(showOverlay([m EXCEPT !.adminSessionActive = FALSE, !.tokens = nt,
                                       !.file = saveTokens(nt, m.file)]),
                 200, "ok", "Admin QR session: relocking overlay")
  ELSE IF Truthy(m.currentTokenId) /\ oldEnough(m) THEN
    LET r == finalizeCurrent(m, "COMPLETED") IN
    IF r.changed THEN HookReply(showOverlay(r.st), 200, "ok", "Guest session finalized + relocking")
    ELSE HookReply(r.st, 200, "ok", "No guest token finalized; ignoring")
  ELSE HookReply(m, 200, "ok", "Early hook or not armed; ignoring")

\* the session_end branch
hookSessionEnd(m) ==
  IF m.adminSessionActive /\ oldEnough(m) THEN
    HookReply(showOverlay([m EXCEPT !.adminSessionActive = FALSE]), 200, "ok",
              "Admin QR session: relocking overlay")
  ELSE IF Truthy(m.currentTokenId) /\ oldEnough(m) THEN
    LET r == finalizeCurrent(m, "COMPLETED") IN
    IF r.changed THEN HookReply(showOverlay(r.st), 200, "ok", "Guest session finalized + relocking")
    ELSE HookReply(r.st, 200, "ok", "No guest token finalized; ignoring")
  ELSE HookReply(m, 200, "ok", "Early hook or not armed; ignoring")


\* the secret compared only when the notification carries one
hookSecretOptional(m, q, w, secret) ==
  IF cfg.HOOK_SECRET # "" /\ secret # "" /\ secret # cfg.HOOK_SECRET THEN
    HookReply(m, 403, "forbidden", "Hook rejected (bad/missing secret)")
  ELSE IF hookEvent(q, w) = "session_end" THEN hookSessionEnd(m)
  ELSE HookReply(m, 200, "ignored", "")

\* the handler of GET /hook and /hook/:whatever run in state m
hook(m, q, w, secret) ==
  IF cfg.HOOK_SECRET # "" /\ secret # cfg.HOOK_SECRET THEN
    HookReply(m, 403, "forbidden", "Hook rejected (bad/missing secret)")
  ELSE IF hookEvent(q, w) = "session_end" THEN hookSessionEnd(m)
  ELSE HookReply(m, 200, "ignored", "")

Hook(q, w, secret) ==
  /\ pc = "running"
  /\ Commit(hook(Mem, q, w, secret).st)
  /\ UNCHANGED <<now, pc, cfg, writable, resets>>

\* ------------------------------------------------------------ Control+Shift+L
\* the hotkey handler that knows no admin session
forceRelockGuestOnly(m) == showOverlay(finalizeCurrent(m, "CANCELLED").st)

\* the handler registerHotkey() registers, run in state m
forceRelock(m) ==
  LET r == finalizeCurrent(m, "CANCELLED") IN
  showOverlay([r.st EXCEPT !.adminSessionActive = FALSE])

ForceRelock ==
  /\ pc = "running"
  /\ Commit(forceRelock(Mem))
  /\ UNCHANGED <<now, pc, cfg, writable, resets>>

\* ------------------------------------------------------------ POST /admin/reset
\* String(s || "").toUpperCase().trim() on the status words a request can carry
upperTrim(s) ==
  CASE s = "used"       -> "USED"
    [] s = " cancelled" -> "CANCELLED"
    [] s = "archived"   -> "ARCHIVED"
    [] ~Truthy(s)       -> ""
    [] OTHER -> s

normStatus(s) == IF upperTrim(s) = "USED" THEN "COMPLETED" ELSE upperTrim(s)

\* new Set(normFromList(from || ["IN_USE","COMPLETED","CANCELLED"])), from given by its pieces
fromSetOf(from) ==
  LET list == IF from = <<>> THEN <<"IN_USE", "COMPLETED", "CANCELLED">> ELSE from
  IN { normStatus(list[i]) : i \in DOMAIN list }


\* match(t) whose uuid_one mode does not look at the from set
resetMatchUuidIgnoresFrom(t, mode, batch_id, uuid, fromSet) ==
  CASE mode = "batch_all"   -> t.batch_id = batch_id /\ t.status \in fromSet
    [] mode = "batch_inuse" -> t.batch_id = batch_id /\ t.status = "IN_USE"
    [] mode = "uuid_one"    -> t.uuid = uuid
    [] mode = "all_batches" -> t.status \in fromSet
    [] OTHER -> FALSE

\* match(t) of the reset handler
resetMatch(t, mode, batch_id, uuid, fromSet) ==
  CASE mode = "batch_all"   -> t.batch_id = batch_id /\ t.status \in fromSet
    [] mode = "batch_inuse" -> t.batch_id = batch_id /\ t.status = "IN_USE"
    [] mode = "uuid_one"    -> t.uuid = uuid /\ t.status \in fromSet
    [] mode = "all_batches" -> t.status \in fromSet
    [] OTHER -> FALSE


\* the body of the loop leaving claimed_at as it was
resetTokenKeepsClaim(t, to) ==
  IF to = "ISSUED" THEN [t EXCEPT !.status = to, !.completed_at = Null]
  ELSE IF to # "COMPLETED" THEN [t EXCEPT !.status = to, !.completed_at = Null]
  ELSE [t EXCEPT !.status = to]

\* the body of the loop for one matched token
resetToken(t, to) ==
  IF to = "ISSUED" THEN [t EXCEPT !.status = to, !.claimed_at = Null, !.completed_at = Null]
  ELSE IF to # "COMPLETED" THEN [t EXCEPT !.status = to, !.completed_at = Null]
  ELSE [t EXCEPT !.status = to]

ResetBatches == {BATCH_ID, OtherBatch}
ResetUuids == {"uuid-1"}
ResetTo == {"ISSUED", "used"}
ResetFrom == {<<>>, <<"ISSUED">>}

ResetRequest(pin, mode, batch_id, uuid, to, from) ==
  [pin |-> pin, mode |-> mode, batch_id |-> batch_id, uuid |-> uuid, to |-> to, from |-> from]

\* request bodies; a field the mode does not read is left out of the body
ResetBodies ==
  { ResetRequest(pin, "all_batches", Undefined, Undefined, "ISSUED", <<>>) :
      pin \in {"0000", "", Undefined} } \cup
  { ResetRequest("4321", "batch_all", b, Undefined, to, from) :
      b \in ResetBatches, to \in ResetTo, from \in ResetFrom } \cup
  { ResetRequest("4321", "batch_inuse", b, Undefined, to, <<>>) :
      b \in ResetBatches, to \in ResetTo } \cup
  { ResetRequest("4321", "uuid_one", Undefined, u, to, from) :
      u \in ResetUuids, to \in ResetTo, from \in ResetFrom } \cup
  { ResetRequest("4321", "all_batches", Undefined, Undefined, to, from) :
      to \in ResetTo, from \in ResetFrom } \cup
  { ResetRequest("4321", "everything", Undefined, Undefined, "ISSUED", <<>>) }

ResetReply(st, code, error, changed, to, before) ==
  [st |-> st, code |-> code, error |-> error, changed |-> changed, to |-> to,
   from_counts |-> before]


\* the reset handler without "if (currentTokenId === t.uuid) currentTokenId = null"
adminResetKeepsPointer(m, r) ==
  IF ~Truthy(cfg.ADMIN_ENABLED) THEN ResetReply(m, 403, "admin_disabled", 0, "", <<>>)
  ELSE IF ~Truthy(r.pin) \/ r.pin # cfg.ADMIN_PIN THEN ResetReply(m, 401, "bad_pin", 0, "", <<>>)
  ELSE
    LET to      == normStatus(r.to)
        fromSet == fromSetOf(r.from)
        hit     == {i \in DOMAIN m.tokens :
                      resetMatch(m.tokens[i], r.mode, r.batch_id, r.uuid, fromSet)}
        nt      == [i \in DOMAIN m.tokens |->
                      IF i \in hit THEN resetToken(m.tokens[i], to) ELSE m.tokens[i]]
        before  == [s \in {m.tokens[i].status : i \in hit} |->
                      Cardinality({i \in hit : m.tokens[i].status = s})]
    IN ResetReply([m EXCEPT !.tokens = nt, !.file = saveTokens(nt, m.file)],
                  200, "", Cardinality(hit), to, before)


\* the reset handler comparing the pin only when one is configured
adminResetPinOptional(m, r) ==
  IF ~Truthy(cfg.ADMIN_ENABLED) THEN ResetReply(m, 403, "admin_disabled", 0, "", <<>>)
  ELSE IF Truthy(cfg.ADMIN_PIN) /\ r.pin # cfg.ADMIN_PIN THEN ResetReply(m, 401, "bad_pin", 0, "", <<>>)
  ELSE
    LET to      == normStatus(r.to)
        fromSet == fromSetOf(r.from)
        hit     == {i \in DOMAIN m.tokens :
                      resetMatch(m.tokens[i], r.mode, r.batch_id, r.uuid, fromSet)}
        nt      == [i \in DOMAIN m.tokens |->
                      IF i \in hit THEN resetToken(m.tokens[i], to) ELSE m.tokens[i]]
        before  == [s \in {m.tokens[i].status : i \in hit} |->
                      Cardinality({i \in hit : m.tokens[i].status = s})]
        cur     == IF \E i \in hit : m.tokens[i].uuid = m.currentTokenId
                   THEN Null ELSE m.currentTokenId
    IN ResetReply([m EXCEPT !.tokens = nt, !.currentTokenId = cur,
                            !.file = saveTokens(nt, m.file)],
                  200, "", Cardinality(hit), to, before)

\* the reset handler counting before[t.status] after the status was overwritten
adminResetCountsAfter(m, r) ==
  IF ~Truthy(cfg.ADMIN_ENABLED) THEN ResetReply(m, 403, "admin_disabled", 0, "", <<>>)
  ELSE IF ~Truthy(r.pin) \/ r.pin # cfg.ADMIN_PIN THEN ResetReply(m, 401, "bad_pin", 0, "", <<>>)
  ELSE
    LET to      == normStatus(r.to)
        fromSet == fromSetOf(r.from)
        hit     == {i \in DOMAIN m.tokens :
                      resetMatch(m.tokens[i], r.mode, r.batch_id, r.uuid, fromSet)}
        nt      == [i \in DOMAIN m.tokens |->
                      IF i \in hit THEN resetToken(m.tokens[i], to) ELSE m.tokens[i]]
        before  == [s \in {nt[i].status : i \in hit} |->
                      Cardinality({i \in hit : nt[i].status = s})]
        cur     == IF \E i \in hit : m.tokens[i].uuid = m.currentTokenId
                   THEN Null ELSE m.currentTokenId
    IN ResetReply([m EXCEPT !.tokens = nt, !.currentTokenId = cur,
                            !.file = saveTokens(nt, m.file)],
                  200, "", Cardinality(hit), to, before)

\* the handler of POST /admin/reset run in state m
adminReset(m, r) ==
  IF ~Truthy(cfg.ADMIN_ENABLED) THEN ResetReply(m, 403, "admin_disabled", 0, "", <<>>)
  ELSE IF ~Truthy(r.pin) \/ r.pin # cfg.ADMIN_PIN THEN ResetReply(m, 401, "bad_pin", 0, "", <<>>)
  ELSE
    LET to      == normStatus(r.to)
        fromSet == fromSetOf(r.from)
        hit     == {i \in DOMAIN m.tokens :
                      resetMatch(m.tokens[i], r.mode, r.batch_id, r.uuid, fromSet)}
        nt      == [i \in DOMAIN m.tokens |->
                      IF i \in hit THEN resetToken(m.tokens[i], to) ELSE m.tokens[i]]
        before  == [s \in {m.tokens[i].status : i \in hit} |->
                      Cardinality({i \in hit : m.tokens[i].status = s})]
        cur     == IF \E i \in hit : m.tokens[i].uuid = m.currentTokenId
                   THEN Null ELSE m.currentTokenId
    IN ResetReply([m EXCEPT !.tokens = nt, !.currentTokenId = cur,
                            !.file = saveTokens(nt, m.file)],
                  200, "", Cardinality(hit), to, before)

\* a reset request that is carried out counts against MaxResets
AdminReset(r) ==
  /\ pc = "running"
  /\ LET reply == adminReset(Mem, r) IN
     /\ Commit(reply.st)
     /\ IF reply.code = 200
        THEN resets < MaxResets /\ resets' = resets + 1
        ELSE resets' = resets
  /\ UNCHANGED <<now, pc, cfg, writable>>

\* ------------------------------------------------------------ specifications
Requests ==
  \/ \E p \in ScanPayloads : Scan(p)
  \/ \E q \in HookQueryEvents, w \in HookPathEvents, s \in HookSecrets : Hook(q, w, s)
  \/ ForceRelock

Resets == \E r \in ResetBodies : AdminReset(r)

Next == Startup \/ Crash \/ Tick \/ Requests \/ Resets

Spec == Init /\ [][Next]_vars

\* normal operation: one run of the process, no administrative override
NextNormal == Startup \/ Tick \/ Requests

SpecNormal == Init /\ [][NextNormal]_vars


\* ------------------------------------------------------------ GET /admin/stats
StatsBatches == {"", BATCH_ID, OtherBatch}

StatsReply(st, code, error, batch, total, counts) ==
  [st |-> st, code |-> code, error |-> error, batch |-> batch, total |-> total,
   counts |-> counts]

\* the handler of GET /admin/stats run in state m; batch is req.query.batch || ""
stats(m, batch) ==
  IF ~Truthy(cfg.ADMIN_ENABLED) THEN StatsReply(m, 403, "admin_disabled", Null, 0, <<>>)
  ELSE
    LET subset == IF batch # "" THEN {i \in DOMAIN m.tokens : m.tokens[i].batch_id = batch}
                  ELSE DOMAIN m.tokens
        counts == [s \in {m.tokens[i].status : i \in subset} |->
                     Cardinality({i \in subset : m.tokens[i].status = s})]
    IN StatsReply(m, 200, "", IF batch # "" THEN batch ELSE Null, Cardinality(subset), counts)

Stats(batch) ==
  /\ pc = "running"
  /\ Commit(stats(Mem, batch).st)
  /\ UNCHANGED <<now, pc, cfg, writable, resets>>

\* ------------------------------------------------------------ any "to" status
\* reset requests with the other "to" words an operator can send: a session status and a
\* word that is no status
ResetToWide == {"ISSUED", "used", "IN_USE", "archived"}

ResetBodiesWide ==
  ResetBodies \cup
  { ResetRequest("4321", "all_batches", Undefined, Undefined, to, from) :
      to \in ResetToWide, from \in ResetFrom } \cup
  { ResetRequest("4321", "uuid_one", Undefined, u, to, <<>>) :
      u \in ResetUuids, to \in ResetToWide }

ResetsWide == \E r \in ResetBodiesWide : AdminReset(r)

\* every endpoint of the server, every "to" word
NextWide ==
  \/ Startup \/ Crash \/ Tick \/ Requests
  \/ \E b \in StatsBatches : Stats(b)
  \/ ResetsWide

SpecWide == Init /\ [][NextWide]_vars

\* ------------------------------------------------------------ failing writes
\* writes of tokens.json start to fail (disk full, file locked, read-only medium) ...
DiskFails(how) ==
  /\ writable = "yes"
  /\ writable' = how
  /\ UNCHANGED <<tokens, file, currentTokenId, unlockedAtMs, adminSessionActive,
                 winVisible, now, pc, cfg, resets>>

\* ... and succeed again
DiskRecovers ==
  /\ writable # "yes"
  /\ writable' = "yes"
  /\ UNCHANGED <<tokens, file, currentTokenId, unlockedAtMs, adminSessionActive,
                 winVisible, now, pc, cfg, resets>>

NextFaulty ==
  \/ Startup \/ Crash \/ Tick \/ Requests
  \/ \E how \in WriteFailures : DiskFails(how)
  \/ DiskRecovers

SpecFaulty == Init /\ [][NextFaulty]_vars


\* ------------------------------------------------------------ GET /hook/... routing
\* the path pieces after /hook of the URLs the booth software can be given
HookSegments ==
  { <<>>, <<"session_end">>, <<"x">>,
    <<"session_end", "MYSECRET">>, <<"x", "MYSECRET">>, <<"session_end", "WRONG">> }

\* appx.get(["/hook", "/hook/:whatever"], ...): the router hands /hook and /hook/<one
\* piece> to the handler; a longer path matches no route and express answers 404
hookGet(m, segs, q, secret) ==
  IF Len(segs) = 0 THEN hook(m, q, "", secret)
  ELSE IF Len(segs) = 1 THEN hook(m, q, segs[1], secret)
  ELSE HookReply(m, 404, "Cannot GET", "")

HookGet(segs, q, secret) ==
  /\ pc = "running"
  /\ Commit(hookGet(Mem, segs, q, secret).st)
  /\ UNCHANGED <<now, pc, cfg, writable, resets>>

\* one run of the process, notifications given by their URL
NextUrl ==
  \/ Startup \/ Tick
  \/ \E p \in ScanPayloads : Scan(p)
  \/ \E segs \in HookSegments, q \in HookQueryEvents, s \in HookSecrets : HookGet(segs, q, s)
  \/ ForceRelock

SpecUrl == Init /\ [][NextUrl]_vars


\* ------------------------------------------------------------ sessions that end
\* the booth software reports the end of the session with the secret it was given
SessionEnd == Hook("session_end", "", cfg.HOOK_SECRET)

\* one run of the process in which the clock advances and the end of a session keeps
\* being reported and the operator keeps pressing Control+Shift+L while either changes
\* something
SpecLive ==
  /\ Init /\ [][NextNormal]_vars
  /\ WF_vars(Startup) /\ WF_vars(Tick) /\ WF_vars(SessionEnd) /\ WF_vars(ForceRelock)


\* ------------------------------------------------------------ the original main.js
\* main.js before the admin features: no adminSessionActive, no Admin QR, no /admin
\* routes.  Its safeLoadJson, loadTokens, saveTokens, nowISO, showOverlay and hideOverlay
\* are the functions above.
MainMem == [tokens |-> tokens, file |-> file, currentTokenId |-> currentTokenId,
            unlockedAtMs |-> unlockedAtMs, winVisible |-> winVisible]

CommitMain(m) ==
  /\ tokens' = m.tokens
  /\ file' = m.file
  /\ currentTokenId' = m.currentTokenId
  /\ unlockedAtMs' = m.unlockedAtMs
  /\ winVisible' = m.winVisible

mainVerifyPayload(toks, p) ==
  IF ~startsWithTag(p) THEN Verdict(FALSE, "invalid_format", Null, Null)
  ELSE IF Len(p) # 4 THEN Verdict(FALSE, "invalid_parts", Null, Null)
  ELSE IF p[2] # BATCH_ID THEN Verdict(FALSE, "batch_mismatch", Null, Null)
  ELSE IF cfg.DEV_ACCEPT_LISTED_TOKENS /\ listedToken(toks, p) THEN Verdict(TRUE, "", p[2], p[3])
  ELSE IF p[4] # sign(p[2], p[3], HMAC_SECRET) THEN Verdict(FALSE, "bad_signature", Null, Null)
  ELSE Verdict(TRUE, "", p[2], p[3])

\* finalizeCurrent that stamps completed_at whatever the outcome
mainFinalizeCurrentStampsAll(m, outcome) ==
  LET idx == FirstIdx({i \in DOMAIN m.tokens : m.tokens[i].uuid = m.currentTokenId}) IN
  IF ~Truthy(m.currentTokenId) THEN [st |-> m, changed |-> FALSE]
  ELSE IF idx = 0 THEN [st |-> [m EXCEPT !.currentTokenId = Null], changed |-> FALSE]
  ELSE IF m.tokens[idx].status = "IN_USE" THEN
    LET status == IF outcome = "COMPLETED" THEN "COMPLETED" ELSE "CANCELLED"
        nt == [m.tokens EXCEPT ![idx].status = status, ![idx].completed_at = nowISO]
    IN [st |-> [m EXCEPT !.tokens = nt, !.file = saveTokens(nt, m.file),
                         !.currentTokenId = Null],
        changed |-> TRUE]
  ELSE [st |-> [m EXCEPT !.currentTokenId = Null], changed |-> FALSE]

\* finalizeCurrent(outcome) of main.js
mainFinalizeCurrent(m, outcome) ==
  LET idx == FirstIdx({i \in DOMAIN m.tokens : m.tokens[i].uuid = m.currentTokenId}) IN
  IF ~Truthy(m.currentTokenId) THEN [st |-> m, changed |-> FALSE]
  ELSE IF idx = 0 THEN [st |-> [m EXCEPT !.currentTokenId = Null], changed |-> FALSE]
  ELSE IF m.tokens[idx].status = "IN_USE" THEN
    LET status == IF outcome = "COMPLETED" THEN "COMPLETED" ELSE "CANCELLED"
        nt == [m.tokens EXCEPT
                 ![idx].status = status,
                 ![idx].completed_at = IF status = "COMPLETED" THEN nowISO ELSE Null]
    IN [st |-> [m EXCEPT !.tokens = nt, !.file = saveTokens(nt, m.file),
                         !.currentTokenId = Null],
        changed |-> TRUE]
  ELSE [st |-> [m EXCEPT !.currentTokenId = Null], changed |-> FALSE]

\* the handler of GET /hook and /hook/:whatever of main.js
mainHook(m, q, w, secret) ==
  IF cfg.HOOK_SECRET # "" /\ secret # cfg.HOOK_SECRET THEN
    HookReply(m, 403, "forbidden", "Hook rejected (bad/missing secret)")
  ELSE IF hookEvent(q, w) = "session_end" THEN
    IF Truthy(m.currentTokenId) /\ oldEnough(m) THEN
      LET r == mainFinalizeCurrent(m, "COMPLETED") IN
      IF r.changed THEN HookReply(showOverlay(r.st), 200, "ok", "finalized token + relocking overlay")
      ELSE HookReply(r.st, 200, "ok", "no token finalized; ignoring relock")
    ELSE HookReply(m, 200, "ok", "early hook or not armed; ignoring")
  ELSE HookReply(m, 200, "ignored", "")

\* the handler of POST /api/qr/scan of main.js
mainScan(m, p) ==
  LET v   == mainVerifyPayload(m.tokens, p)
      idx == FirstIdx({i \in DOMAIN m.tokens :
                         m.tokens[i].uuid = v.uuid /\ m.tokens[i].batch_id = v.batch})
  IN
  IF ~v.ok THEN ScanReply(m, 400, scanErrorText(v.err), Null, FALSE)
  ELSE IF idx = 0 THEN ScanReply(m, 400, "QR tidak dikenal", Null, FALSE)
  ELSE IF m.tokens[idx].status = "COMPLETED" THEN
    ScanReply(m, 409, "QR sudah digunakan", Null, FALSE)
  ELSE IF m.tokens[idx].status = "IN_USE" THEN
    ScanReply(m, 409, "QR sedang dipakai", Null, FALSE)
  ELSE IF m.tokens[idx].status # "ISSUED" THEN
    ScanReply(m, 409, "QR tidak dalam status ISSUED", Null, FALSE)
  ELSE
    LET nt == [m.tokens EXCEPT ![idx].status = "IN_USE", ![idx].claimed_at = nowISO] IN
    ScanReply([hideOverlay([m EXCEPT !.tokens = nt, !.file = saveTokens(nt, m.file),
                                     !.currentTokenId = m.tokens[idx].uuid])
                 EXCEPT !.unlockedAtMs = now],
              200, "", m.tokens[idx].uuid, FALSE)

\* the Control+Shift+L handler of main.js
mainForceRelock(m) == showOverlay(mainFinalizeCurrent(m, "CANCELLED").st)

\* app.whenReady of main.js
mainWhenReady(m) ==
  LET loaded  == safeLoadJson(m.file)
      f1      == loadTokensFile(m.file)
      changed == \E i \in DOMAIN loaded : loaded[i].status = "IN_USE"
      recon   == [i \in DOMAIN loaded |->
                    IF loaded[i].status = "IN_USE"
                    THEN [loaded[i] EXCEPT !.status = "CANCELLED"] ELSE loaded[i]]
  IN [m EXCEPT !.tokens = recon,
               !.file = IF changed THEN saveTokens(recon, f1) ELSE f1,
               !.winVisible = TRUE]

MainStartup ==
  /\ pc = "boot"
  /\ CommitMain(mainWhenReady(MainMem))
  /\ pc' = "running"
  /\ UNCHANGED <<adminSessionActive, now, cfg, writable, resets>>

MainScan(p) ==
  /\ pc = "running"
  /\ CommitMain(mainScan(MainMem, p).st)
  /\ UNCHANGED <<adminSessionActive, now, pc, cfg, writable, resets>>

MainHook(q, w, secret) ==
  /\ pc = "running"
  /\ CommitMain(mainHook(MainMem, q, w, secret).st)
  /\ UNCHANGED <<adminSessionActive, now, pc, cfg, writable, resets>>

MainForceRelock ==
  /\ pc = "running"
  /\ CommitMain(mainForceRelock(MainMem))
  /\ UNCHANGED <<adminSessionActive, now, pc, cfg, writable, resets>>

NextMain ==
  \/ MainStartup \/ Tick
  \/ \E p \in ScanPayloads : MainScan(p)
  \/ \E q \in HookQueryEvents, w \in HookPathEvents, s \in HookSecrets : MainHook(q, w, s)
  \/ MainForceRelock

SpecMain == Init /\ [][NextMain]_vars


\* ------------------------------------------------------------ issue and verify
\* batch ids given to generate-qr.js with --batch, ids from crypto.randomUUID(), secrets
CodecBatches == {BATCH_ID, OtherBatch, "EVT|1"}
CodecUuids == {"uuid-1", "uuid-2", "uuid-3"}
CodecSecrets == {HMAC_SECRET, OldSecret}

\* s.split("|") on these words
splitBar(s) == IF s = "EVT|1" THEN <<"EVT", "1">> ELSE <<s>>

\* `ciu:1|${BATCH_ID}|${uuid}|${sig}` as the pieces payload.split("|") gives
toolPayload(batch, uuid, secret) ==
  <<"ciu:1">> \o splitBar(batch) \o splitBar(uuid) \o <<sign(batch, uuid, secret)>>

\* the token record generate-qr.js pushes
toolToken(batch, uuid, secret) ==
  [ uuid |-> uuid, batch_id |-> batch, payload |-> toolPayload(batch, uuid, secret),
    status |-> "ISSUED", claimed_at |-> Null, completed_at |-> Null, created_at |-> "T0" ]

\* verifyPayload with the values it takes from config.js as arguments
verifyPayloadWith(batch_id, hmac_secret, accept_listed, toks, p) ==
  IF ~startsWithTag(p) THEN Verdict(FALSE, "invalid_format", Null, Null)
  ELSE IF Len(p) # 4 THEN Verdict(FALSE, "invalid_parts", Null, Null)
  ELSE IF p[2] # batch_id THEN Verdict(FALSE, "batch_mismatch", Null, Null)
  ELSE IF accept_listed /\ listedToken(toks, p) THEN Verdict(TRUE, "", p[2], p[3])
  ELSE IF p[4] # sign(p[2], p[3], hmac_secret) THEN Verdict(FALSE, "bad_signature", Null, Null)
  ELSE Verdict(TRUE, "", p[2], p[3])

\* stations configured for each batch and secret
CodecConfigs ==
  { [ BATCH_ID |-> b, HMAC_SECRET |-> s, DEV_ACCEPT_LISTED_TOKENS |-> d,
      HOOK_SECRET |-> "", ADMIN_ENABLED |-> Undefined, ADMIN_PIN |-> Undefined,
      ADMIN_QR_UUID |-> Undefined ] :
      b \in CodecBatches, s \in CodecSecrets, d \in BOOLEAN }

InitCodec ==
  /\ tokens = <<>>
  /\ file = FileMissing
  /\ currentTokenId = Null
  /\ unlockedAtMs = 0
  /\ adminSessionActive = FALSE
  /\ winVisible = FALSE
  /\ now = BootNowMs
  /\ pc = "boot"
  /\ cfg \in CodecConfigs
  /\ writable = "yes"
  /\ resets = 0

\* node generate-qr.js --count 1 --batch <batch>, run while the station is down
Generate(batch, uuid, secret) ==
  /\ pc = "boot"
  /\ LET old == safeLoadJson(file) IN
     /\ Len(old) < MaxIssued
     /\ \A i \in DOMAIN old : old[i].uuid # uuid
     /\ file' = FileJson(Append(old, toolToken(batch, uuid, secret)))
  /\ UNCHANGED <<tokens, currentTokenId, unlockedAtMs, adminSessionActive, winVisible,
                 now, pc, cfg, writable, resets>>

\* a code is held up to the station: verifyPayload runs on it
Present(p) ==
  /\ pc = "running"
  /\ verifyPayloadWith(cfg.BATCH_ID, cfg.HMAC_SECRET, cfg.DEV_ACCEPT_LISTED_TOKENS,
                       tokens, p).ok \in BOOLEAN
  /\ UNCHANGED vars

NextCodec ==
  \/ \E b \in CodecBatches, u \in CodecUuids, s \in CodecSecrets : Generate(b, u, s)
  \/ Startup
  \/ \E b \in CodecBatches, u \in CodecUuids, s \in CodecSecrets : Present(toolPayload(b, u, s))

SpecCodec == InitCodec /\ [][NextCodec]_vars

\* ------------------------------------------------------------ properties
Running == pc = "running"

GraceMs == MIN_SECONDS_BEFORE_SESSION_END * 1000

InUse(toks) == {i \in DOMAIN toks : toks[i].status = "IN_USE"}

\* the token records that survive the process: the store while it runs, the file otherwise
Durable == IF Running THEN tokens ELSE safeLoadJson(file)

StatusOf(u) ==
  LET S == {i \in DOMAIN Durable : Durable[i].uuid = u} IN
  IF S = {} THEN "absent" ELSE Durable[FirstIdx(S)].status

AllUuids == {st[i].uuid : st \in IssuedStores, i \in {1, 2}}

\* ids of the codes issued for the station's batch
StationUuids == {st[i].uuid : st \in {x \in IssuedStores : x[2].batch_id = BATCH_ID}, i \in {1, 2}}

\* the printed code of token u
CredentialOf(u) == MakePayload(BATCH_ID, u, HMAC_SECRET)

\* a notification that carries the secret the station requires
Authorized(secret) == cfg.HOOK_SECRET = "" \/ secret = cfg.HOOK_SECRET

\* the notification names the completion phase: event_type if given, else the path piece
CompletionPhase(q, w) ==
  \/ q \in {"session_end", "SESSION_END"}
  \/ q = "" /\ w \in {"session_end", "SESSION_END"}

\* a step in which an admin reset was carried out
ResetStep == resets' # resets

\* C1: in every state reached by scans, hooks and forced relocks (no admin reset) at
\* most one token of the store is IN_USE.
C1_AtMostOneInUse == Cardinality(InUse(tokens)) <= 1

\* C2: every scan handled while a guest session is armed is rejected and leaves the
\* pointer, the admin flag, the unlock timestamp and every token record unchanged.
C2_ScanWhileGuestArmedRejected ==
  [][\A p \in ScanPayloads :
       (Truthy(currentTokenId) /\ Scan(p)) =>
          /\ scan(Mem, p).code # 200
          /\ UNCHANGED <<tokens, file, currentTokenId, adminSessionActive, unlockedAtMs>>]_vars

\* a scan of token u's code is answered "already used" and changes nothing
RejectsUsed(u) ==
  LET r == scan(Mem, CredentialOf(u)) IN
  r.code = 409 /\ r.error = "QR sudah digunakan" /\ r.st = Mem

ForwardEdge(a, b) ==
  <<a, b>> \in {<<"ISSUED", "IN_USE">>, <<"IN_USE", "COMPLETED">>, <<"IN_USE", "CANCELLED">>}

\* C4 as stated: every step changes a status only along ISSUED -> IN_USE,
\* IN_USE -> COMPLETED, IN_USE -> CANCELLED, or, in an admin reset, IN_USE -> ISSUED.
C4_OnlyForwardEdges ==
  [][\A u \in AllUuids :
       StatusOf(u) # StatusOf(u)' =>
          \/ ForwardEdge(StatusOf(u), StatusOf(u)')
          \/ ResetStep /\ StatusOf(u) = "IN_USE" /\ StatusOf(u)' = "ISSUED"]_vars

\* C4 amended: every step that is not an admin reset (scan, hook, forced relock,
\* startup recovery) changes a status only along the three forward edges, so a
\* COMPLETED or CANCELLED token is left alone and IN_USE -> ISSUED never happens there.
C4_ForwardEdgesOutsideReset ==
  [][~ResetStep =>
       \A u \in AllUuids :
          StatusOf(u) # StatusOf(u)' => ForwardEdge(StatusOf(u), StatusOf(u)')]_vars

C4_Witness ==
  /\ Running
  /\ resets = 0
  /\ \E i, j \in DOMAIN tokens :
       tokens[i].status = "COMPLETED" /\ tokens[j].status = "CANCELLED"

\* C5: an authorized session-end handled less than the grace window after the unlock
\* changes nothing; handled at or after it while a guest session is armed, it moves the
\* armed token IN_USE -> COMPLETED with completed_at set, empties the pointer and shows
\* the overlay, and the same notification handled again changes nothing more.
C5_Debounce ==
  Running =>
    \A q \in HookQueryEvents, w \in HookPathEvents, s \in HookSecrets :
      (Authorized(s) /\ CompletionPhase(q, w)) =>
        LET r == hook(Mem, q, w, s).st IN
        /\ (now - unlockedAtMs < GraceMs) => r = Mem
        /\ (now - unlockedAtMs >= GraceMs /\ Truthy(currentTokenId)) =>
             /\ \E i \in DOMAIN tokens :
                  /\ tokens[i].uuid = currentTokenId
                  /\ tokens[i].status = "IN_USE"
                  /\ r.tokens = [tokens EXCEPT ![i].status = "COMPLETED",
                                               ![i].completed_at = nowISO]
             /\ r.file = FileJson(r.tokens)
             /\ r.currentTokenId = Null
             /\ r.winVisible
             /\ r.adminSessionActive = adminSessionActive
             /\ r.unlockedAtMs = unlockedAtMs
             /\ hook(r, q, w, s).st = r

\* a session finalized by a session-end that arrived exactly at the grace window
C5_Witness ==
  /\ Running
  /\ now - unlockedAtMs = GraceMs
  /\ currentTokenId = Null
  /\ winVisible
  /\ \E i \in DOMAIN tokens :
       tokens[i].status = "COMPLETED" /\ tokens[i].completed_at = nowISO

\* C6: a notification whose phase is not session_end leaves the store, the file, the
\* pointer, the admin flag, the unlock timestamp and the overlay unchanged, in every
\* session state and at every elapsed time.
C6_PhaseFilter ==
  Running =>
    \A q \in HookQueryEvents, w \in HookPathEvents, s \in HookSecrets :
      ~CompletionPhase(q, w) => hook(Mem, q, w, s).st = Mem

\* an armed guest session past the grace window that a "countdown" leaves armed
C6_Witness ==
  /\ Running
  /\ Truthy(currentTokenId)
  /\ now - unlockedAtMs >= GraceMs
  /\ hook(Mem, "countdown", "session_end", cfg.HOOK_SECRET).body = "ignored"
  /\ hook(Mem, "countdown", "session_end", cfg.HOOK_SECRET).st = Mem

\* C7: with a guest session armed and the grace window over, two authorized
\* session-ends in succession leave the same state as one, the second is answered
\* "ok"; and whenever nothing is armed a session-end changes nothing (completed_at is
\* not rewritten).
C7_SessionEndIdempotent ==
  Running =>
    \A q \in HookQueryEvents, w \in HookPathEvents, s \in HookSecrets :
      (Authorized(s) /\ CompletionPhase(q, w)) =>
        /\ (Truthy(currentTokenId) /\ now - unlockedAtMs >= GraceMs) =>
             LET once  == hook(Mem, q, w, s)
                 twice == hook(once.st, q, w, s)
             IN /\ once.st # Mem
                /\ twice.st = once.st
                /\ twice.code = 200 /\ twice.body = "ok"
                /\ Cardinality({i \in DOMAIN tokens :
                                  once.st.tokens[i] # tokens[i]}) = 1
        /\ (~Truthy(currentTokenId) /\ ~adminSessionActive) => hook(Mem, q, w, s).st = Mem

\* a finalized session, some time later: the next session-end finds nothing armed
C7_Witness ==
  /\ Running
  /\ currentTokenId = Null /\ ~adminSessionActive
  /\ unlockedAtMs > 0
  /\ \E i \in DOMAIN tokens :
       /\ tokens[i].status = "COMPLETED"
       /\ tokens[i].completed_at # Null
       /\ tokens[i].completed_at # nowISO
  /\ hook(Mem, "session_end", "", cfg.HOOK_SECRET).st = Mem
  /\ hook(Mem, "session_end", "", cfg.HOOK_SECRET).body = "ok"

\* C8: the forced relock can be taken in every state of the running process and ends
\* in LOCKED: pointer empty, admin flag false, overlay shown; an armed guest token goes
\* IN_USE -> CANCELLED with completed_at null and no other token changes.
C8_ForceRelockLocks ==
  Running =>
    /\ ENABLED ForceRelock
    /\ LET r == forceRelock(Mem) IN
       /\ r.currentTokenId = Null
       /\ ~r.adminSessionActive
       /\ r.winVisible
       /\ IF Truthy(currentTokenId)
          THEN \E i \in DOMAIN tokens :
                 /\ tokens[i].uuid = currentTokenId
                 /\ tokens[i].status = "IN_USE"
                 /\ r.tokens = [tokens EXCEPT ![i].status = "CANCELLED",
                                              ![i].completed_at = Null]
          ELSE r.tokens = tokens

\* the station right after the hotkey cancelled the session armed by the last scan
C8_Witness ==
  /\ Running
  /\ resets = 0
  /\ unlockedAtMs > 0
  /\ currentTokenId = Null /\ ~adminSessionActive /\ winVisible
  /\ \E i \in DOMAIN tokens :
       /\ tokens[i].status = "CANCELLED"
       /\ tokens[i].claimed_at = "T" \o ToString(unlockedAtMs)
       /\ tokens[i].completed_at = Null

\* C9: right after a forced relock no token of the store is IN_USE.
C9_NoInUseAfterRelock ==
  [][ForceRelock => \A i \in DOMAIN tokens' : tokens'[i].status # "IN_USE"]_vars

\* C10: the step that takes the process from boot to serving requests leaves every
\* record that was IN_USE in the file CANCELLED and every other record as it was, no
\* record IN_USE, the file equal to the store, and the controller LOCKED.
C10_StartupReconciliation ==
  [][(pc = "boot" /\ pc' = "running") =>
       LET loaded == safeLoadJson(file) IN
       /\ DOMAIN tokens' = DOMAIN loaded
       /\ \A i \in DOMAIN loaded :
            tokens'[i] = IF loaded[i].status = "IN_USE"
                         THEN [loaded[i] EXCEPT !.status = "CANCELLED"]
                         ELSE loaded[i]
       /\ InUse(tokens') = {}
       /\ file.kind # "corrupt" => file' = FileJson(tokens')
       /\ InUse(safeLoadJson(file')) = {}
       /\ currentTokenId' = Null
       /\ ~adminSessionActive'
       /\ winVisible']_vars

\* a fresh process that found an interrupted session in the file and cancelled it
C10_Witness ==
  /\ Running
  /\ unlockedAtMs = 0
  /\ file = FileJson(tokens)
  /\ \E i \in DOMAIN tokens :
       /\ tokens[i].status = "CANCELLED"
       /\ tokens[i].claimed_at # Null
       /\ tokens[i].completed_at = Null

\* C11: a notification is answered "forbidden" exactly when a shared secret is
\* configured and the notification's secret is missing or different; then nothing
\* changes, whatever the phase, the session state and the elapsed time.  Every other
\* notification is answered with status 200.
C11_ForbiddenIffSecretMismatch ==
  Running =>
    \A q \in HookQueryEvents, w \in HookPathEvents, s \in HookSecrets :
      LET r == hook(Mem, q, w, s)
          mismatch == cfg.HOOK_SECRET # "" /\ s # cfg.HOOK_SECRET
      IN /\ mismatch => r.code = 403 /\ r.body = "forbidden" /\ r.st = Mem
         /\ ~mismatch => r.code = 200 /\ r.body \in {"ok", "ignored"}

\* an armed guest session past the grace window; a session-end without the secret is
\* turned away and the session stays armed
C11_Witness ==
  /\ Running
  /\ cfg.HOOK_SECRET = "MYSECRET"
  /\ Truthy(currentTokenId)
  /\ now - unlockedAtMs >= GraceMs
  /\ hook(Mem, "session_end", "", "").code = 403
  /\ hook(Mem, "session_end", "", "WRONG").st = Mem
  /\ hook(Mem, "session_end", "", "MYSECRET").st # Mem

\* C12: a scan answered with a rejection leaves the store, the file, the pointer, the
\* admin flag, the unlock timestamp and the overlay as they were; a credential of
\* another batch is rejected with the batch-mismatch reason.
C12_RejectedScanChangesNothing ==
  Running =>
    \A p \in ScanPayloads :
      LET r == scan(Mem, p) IN
      /\ r.code # 200 => r.st = Mem
      /\ (Len(p) = 4 /\ p[1] = "ciu:1" /\ p[2] # BATCH_ID) =>
            r.code = 400 /\ r.error = "QR bukan untuk event ini" /\ r.st = Mem

\* a store with a CANCELLED and an IN_USE token and a token of another batch or a
\* completed one: each of their codes is rejected
C12_Witness ==
  /\ Running
  /\ \E i, j \in DOMAIN tokens :
       /\ tokens[i].status = "CANCELLED"
       /\ scan(Mem, tokens[i].payload).error = "QR tidak dalam status ISSUED"
       /\ tokens[j].status = "IN_USE"
       /\ scan(Mem, CredentialOf(tokens[j].uuid)).error = "QR sedang dipakai"
  /\ scan(Mem, MakePayload(OtherBatch, "uuid-3", HMAC_SECRET)).error = "QR bukan untuk event ini"

Locked == ~Truthy(currentTokenId) /\ ~adminSessionActive

\* the credential carries the id configured for the Admin QR
CarriesAdminId(p) == Len(p) = 4 /\ Truthy(cfg.ADMIN_QR_UUID) /\ p[3] = cfg.ADMIN_QR_UUID

\* records of the store with the id and batch the credential names
Named(p) == {i \in DOMAIN tokens : tokens[i].uuid = p[3] /\ tokens[i].batch_id = p[2]}

\* the first check of a guest scan that credential p fails in the current state
ScanReason(p) ==
  IF ~(Len(p) = 4 /\ p[1] = "ciu:1") THEN "format"
  ELSE IF p[2] # BATCH_ID THEN "batch"
  ELSE IF ~(\/ p = MakePayload(p[2], p[3], HMAC_SECRET)
            \/ cfg.DEV_ACCEPT_LISTED_TOKENS /\ \E i \in Named(p) : tokens[i].payload = p)
    THEN "signature"
  ELSE IF Named(p) = {} THEN "unknown"
  ELSE LET st == tokens[FirstIdx(Named(p))].status IN
       CASE st = "ISSUED"    -> "accepted"
         [] st = "COMPLETED" -> "completed"
         [] st = "IN_USE"    -> "in_use"
         [] OTHER            -> "invalid_state"

\* the answer the station gives for each reason
ScanAnswer(reason) ==
  CASE reason = "format"        -> <<400, "QR tidak dikenal">>
    [] reason = "batch"         -> <<400, "QR bukan untuk event ini">>
    [] reason = "signature"     -> <<400, "QR tidak valid">>
    [] reason = "unknown"       -> <<400, "QR tidak dikenal">>
    [] reason = "completed"     -> <<409, "QR sudah digunakan">>
    [] reason = "in_use"        -> <<409, "QR sedang dipakai">>
    [] reason = "invalid_state" -> <<409, "QR tidak dalam status ISSUED">>
    [] OTHER                    -> <<200, "">>

\* the scan of p is answered and carried out as its first failing check prescribes
ScanFollowsChecks(p) ==
  LET r      == scan(Mem, p)
      reason == ScanReason(p)
  IN
  /\ <<r.code, r.error>> = ScanAnswer(reason)
  /\ r.code = 200 <=> reason = "accepted"
  /\ r.code = 200 =>
       LET i == FirstIdx(Named(p)) IN
       /\ r.token_id = p[3]
       /\ r.st.tokens = [tokens EXCEPT ![i].status = "IN_USE", ![i].claimed_at = nowISO]
       /\ r.st.file = FileJson(r.st.tokens)
       /\ r.st.currentTokenId = p[3]
       /\ ~r.st.adminSessionActive
       /\ ~r.st.winVisible
       /\ r.st.unlockedAtMs = now
  /\ r.code # 200 => r.token_id = Null

GuestScans == {p \in ScanPayloads : ~CarriesAdminId(p)}

\* the reason for credential p and the answer the scan gives it
ScanGiven(p) == LET r == scan(Mem, p) IN <<ScanReason(p), <<r.code, r.error>>>>

\* C13 as stated: from LOCKED a guest scan is decided by its first failing check (shape,
\* batch, signature or listing, token exists, status ISSUED), accepted exactly when all
\* pass, and the answers for any two different reasons differ.
C13_SevenReasons ==
  (Running /\ Locked) =>
    /\ \A p \in GuestScans : ScanFollowsChecks(p)
    /\ LET given == {ScanGiven(p) : p \in GuestScans} IN
       \A a, b \in given : a[1] # b[1] => a[2] # b[2]

\* C13 amended: from LOCKED a guest scan is decided by its first failing check in the
\* order shape, batch, signature or listing, token exists, status ISSUED; it is accepted
\* exactly when all pass; the answers for two different reasons differ except that an
\* unrecognized format and an unknown token get the same answer.
C13_SixAnswers ==
  (Running /\ Locked) =>
    /\ \A p \in GuestScans : ScanFollowsChecks(p)
    /\ LET given == {ScanGiven(p) : p \in GuestScans} IN
       \A a, b \in given :
         (a[1] # b[1] /\ {a[1], b[1]} # {"format", "unknown"}) => a[2] # b[2]

\* LOCKED with a listed code of stale signature still ISSUED (accepted because it is
\* listed) next to a COMPLETED one
C13_Witness ==
  /\ Running /\ Locked
  /\ cfg.DEV_ACCEPT_LISTED_TOKENS
  /\ \E i, j \in DOMAIN tokens :
       /\ tokens[i].status = "ISSUED"
       /\ tokens[i].payload # CredentialOf(tokens[i].uuid)
       /\ tokens[i].batch_id = BATCH_ID
       /\ scan(Mem, tokens[i].payload).code = 200
       /\ scan(Mem, tokens[i].payload).st.currentTokenId = tokens[i].uuid
       /\ tokens[j].status = "COMPLETED"
       /\ ScanReason(tokens[j].payload) = "completed"

\* the Admin QR as printed for the station
AdminCredential == MakePayload(BATCH_ID, cfg.ADMIN_QR_UUID, HMAC_SECRET)

UnlockedAdmin == adminSessionActive /\ ~Truthy(currentTokenId)

\* C14: with an admin id configured, a scan of the Admin QR from LOCKED or from
\* UNLOCKED_ADMIN is accepted, whatever the store holds, and again when repeated; it
\* leaves the admin flag set, the pointer empty and the overlay hidden.
C14_AdminScanAlwaysAccepted ==
  (Running /\ Truthy(cfg.ADMIN_QR_UUID) /\ ~Truthy(currentTokenId)) =>
    LET r1 == scan(Mem, AdminCredential)
        r2 == scan(r1.st, AdminCredential)
    IN /\ r1.code = 200 /\ r1.admin
       /\ r1.st.adminSessionActive
       /\ r1.st.currentTokenId = Null
       /\ ~r1.st.winVisible
       /\ r1.st.unlockedAtMs = now
       /\ r2.code = 200 /\ r2.admin
       /\ r2.st = r1.st

\* an admin session opened earlier, on a store with a used code: the Admin QR is
\* scanned again
C14_Witness ==
  /\ Running
  /\ UnlockedAdmin
  /\ ~winVisible
  /\ unlockedAtMs < now
  /\ \E i \in DOMAIN tokens : tokens[i].status = "COMPLETED"
  /\ scan(Mem, AdminCredential).code = 200
  /\ scan(Mem, AdminCredential).st.unlockedAtMs = now

\* C15: an accepted admin scan, a session-end that ends an admin session and a forced
\* relock that ends an admin session each leave every token record and the file as
\* they were.
C15_AdminSessionKeepsStore ==
  Running =>
    /\ Truthy(cfg.ADMIN_QR_UUID) =>
         LET r == scan(Mem, AdminCredential).st IN
         r.tokens = tokens /\ r.file = file
    /\ adminSessionActive =>
         /\ \A q \in HookQueryEvents, w \in HookPathEvents, s \in HookSecrets :
              LET r == hook(Mem, q, w, s).st IN
              r.tokens = tokens /\ r.file = file
         /\ forceRelock(Mem).tokens = tokens
         /\ forceRelock(Mem).file = file

\* an admin session past the grace window, opened over an armed guest session whose
\* token is still IN_USE: the session-end ends it
C15_Witness ==
  /\ Running
  /\ UnlockedAdmin
  /\ now - unlockedAtMs >= GraceMs
  /\ InUse(tokens) # {}
  /\ ~hook(Mem, "session_end", "", cfg.HOOK_SECRET).st.adminSessionActive
  /\ hook(Mem, "session_end", "", cfg.HOOK_SECRET).st.winVisible

\* C16: the admin flag and a non-empty guest pointer are never set together, and a
\* guest scan accepted during an admin session leaves the pointer on its token with
\* the admin flag cleared.
C16_OneSessionKind ==
  /\ ~(adminSessionActive /\ Truthy(currentTokenId))
  /\ (Running /\ adminSessionActive) =>
       \A p \in GuestScans :
         LET r == scan(Mem, p) IN
         r.code = 200 => /\ r.st.currentTokenId = p[3]
                         /\ Truthy(r.st.currentTokenId)
                         /\ ~r.st.adminSessionActive

\* an admin session during which a guest presents an ISSUED code
C16_Witness ==
  /\ Running
  /\ UnlockedAdmin
  /\ \E i \in DOMAIN tokens :
       /\ tokens[i].status = "ISSUED"
       /\ scan(Mem, CredentialOf(tokens[i].uuid)).code = 200
       /\ scan(Mem, CredentialOf(tokens[i].uuid)).st.currentTokenId = tokens[i].uuid

\* the records the pointer names
Pointed == {i \in DOMAIN tokens : tokens[i].uuid = currentTokenId}

\* a status word of a request in the store's spelling
Canon(word) ==
  CASE word = "used"       -> "COMPLETED"
    [] word = " cancelled" -> "CANCELLED"
    [] OTHER               -> word

\* the statuses a request's "from" selects
FromStatuses(from) ==
  IF from = <<>> THEN {"IN_USE", "COMPLETED", "CANCELLED"}
  ELSE {Canon(from[i]) : i \in DOMAIN from}

\* token t is selected by the mode of request r
ResetMatches(t, r) ==
  \/ r.mode = "batch_all"   /\ t.batch_id = r.batch_id /\ t.status \in FromStatuses(r.from)
  \/ r.mode = "batch_inuse" /\ t.batch_id = r.batch_id /\ t.status = "IN_USE"
  \/ r.mode = "uuid_one"    /\ t.uuid = r.uuid /\ t.status \in FromStatuses(r.from)
  \/ r.mode = "all_batches" /\ t.status \in FromStatuses(r.from)

Matched(r) == {i \in DOMAIN tokens : ResetMatches(tokens[i], r)}

ProbeTo == {"ISSUED", "used", "CANCELLED", "IN_USE"}
ProbeFrom == {<<>>, <<"used", " cancelled">>, <<"ISSUED">>}

\* reset requests put to the handler: every mode with every "to" and "from", batch_inuse
\* with a "from", uuid_one for every id, and an unknown mode
ResetProbes ==
  { ResetRequest("4321", "batch_all", b, Undefined, to, from) :
      b \in ResetBatches, to \in ProbeTo, from \in ProbeFrom } \cup
  { ResetRequest("4321", "batch_inuse", b, Undefined, "ISSUED", from) :
      b \in ResetBatches, from \in ProbeFrom } \cup
  { ResetRequest("4321", "batch_inuse", b, Undefined, to, <<>>) :
      b \in ResetBatches, to \in ProbeTo } \cup
  { ResetRequest("4321", "uuid_one", Undefined, u, "ISSUED", from) :
      u \in AllUuids, from \in ProbeFrom } \cup
  { ResetRequest("4321", "uuid_one", Undefined, "uuid-1", to, from) :
      to \in ProbeTo, from \in ProbeFrom } \cup
  { ResetRequest("4321", "all_batches", Undefined, Undefined, to, from) :
      to \in ProbeTo, from \in ProbeFrom } \cup
  { ResetRequest("4321", "everything", Undefined, Undefined, "ISSUED", <<>>) }

\* the requests among them that take tokens back to ISSUED
ResetProbesBack == {r \in ResetProbes : r.to = "ISSUED"}

\* one request per way of giving or not giving the pin
PinProbes ==
  { ResetRequest(pin, mode, Undefined, Undefined, "ISSUED", <<>>) :
      pin \in {"4321", "0000", "", Undefined}, mode \in {"all_batches", "everything"} }

\* C17: whenever the pointer is non-empty it names a token of the store whose status is
\* IN_USE, and an admin reset that matches the token the pointer names leaves the
\* pointer empty.
C17_PointerNamesInUseToken ==
  /\ Truthy(currentTokenId) =>
       /\ Pointed # {}
       /\ \A i \in Pointed : tokens[i].status = "IN_USE"
  /\ (Running /\ Truthy(currentTokenId)) =>
       \A r \in ResetProbesBack :
         LET reply == adminReset(Mem, r) IN
         (reply.code = 200 /\ \E i \in Pointed : ResetMatches(tokens[i], r)) =>
            reply.st.currentTokenId = Null

\* an armed guest session on a station whose operator can reset: resetting the armed
\* code to ISSUED empties the pointer
C17_Witness ==
  /\ Running
  /\ Truthy(currentTokenId)
  /\ LET reply == adminReset(Mem, ResetRequest("4321", "uuid_one", Undefined,
                                              currentTokenId, "ISSUED", <<>>))
     IN /\ reply.code = 200
        /\ reply.changed = 1
        /\ reply.st.currentTokenId = Null
        /\ \A i \in Pointed : reply.st.tokens[i].status = "ISSUED"

AdminEnabled == cfg.ADMIN_ENABLED = "true"

\* the request carries a non-empty pin equal to the configured one
PinOk(r) == r.pin \notin {Undefined, Null, ""} /\ r.pin = cfg.ADMIN_PIN

\* C18 as stated: a reset is carried out only when the admin interface is enabled and
\* the pin is non-empty and equal to the configured pin; every other request is
\* answered with the unauthorized rejection and changes nothing.
C18_UnauthorizedOtherwise ==
  Running =>
    \A r \in PinProbes :
      LET reply == adminReset(Mem, r) IN
      IF AdminEnabled /\ PinOk(r) THEN reply.code = 200
      ELSE reply.code = 401 /\ reply.error = "bad_pin" /\ reply.st = Mem

\* C18 amended: a reset is carried out exactly when the admin interface is enabled and
\* the pin is non-empty and equal to the configured pin; with the interface disabled
\* every request is answered 403 admin_disabled, with it enabled every other request
\* (wrong, missing or empty pin, no pin configured) is answered 401 bad_pin; both
\* rejections change nothing.
C18_PinGate ==
  Running =>
    \A r \in PinProbes :
      LET reply == adminReset(Mem, r) IN
      CASE ~AdminEnabled -> reply.code = 403 /\ reply.error = "admin_disabled" /\ reply.st = Mem
        [] AdminEnabled /\ ~PinOk(r) -> reply.code = 401 /\ reply.error = "bad_pin" /\ reply.st = Mem
        [] OTHER -> reply.code = 200 /\ reply.error = ""

\* the interface is on, no pin is configured and a session is armed: a request with
\* no pin, one with an empty pin and one with some pin are all turned away
C18_Witness ==
  /\ Running
  /\ AdminEnabled /\ cfg.ADMIN_PIN = Undefined
  /\ InUse(tokens) # {}
  /\ \A pin \in {Undefined, "", "0000"} :
       LET reply == adminReset(Mem, ResetRequest(pin, "all_batches", Undefined, Undefined,
                                                 "ISSUED", <<>>))
       IN reply.code = 401 /\ reply.st = Mem

\* C19: an authorized reset gives every token matching the mode's predicate on the
\* store before the call the "to" status, leaves its id, batch, payload and creation
\* time alone, and leaves every other token unchanged; batch_inuse ignores "from", and
\* an unknown mode matches nothing.
C19_ResetChangesExactlyMatched ==
  Running =>
    \A r \in ResetProbes :
      LET reply == adminReset(Mem, r)
          hit   == Matched(r)
      IN
      reply.code = 200 =>
        /\ DOMAIN reply.st.tokens = DOMAIN tokens
        /\ \A i \in DOMAIN tokens :
             IF i \in hit
             THEN /\ reply.st.tokens[i].status = Canon(r.to)
                  /\ reply.st.tokens[i].uuid = tokens[i].uuid
                  /\ reply.st.tokens[i].batch_id = tokens[i].batch_id
                  /\ reply.st.tokens[i].payload = tokens[i].payload
                  /\ reply.st.tokens[i].created_at = tokens[i].created_at
             ELSE reply.st.tokens[i] = tokens[i]
        /\ reply.st.file = FileJson(reply.st.tokens)
        /\ r.mode \notin {"batch_all", "batch_inuse", "uuid_one", "all_batches"} =>
             reply.st.tokens = tokens

\* a store with a COMPLETED and an IN_USE code of the station's batch: batch_inuse with
\* from = ISSUED resets the IN_USE one only, uuid_one with from = ISSUED nothing
C19_Witness ==
  /\ Running
  /\ cfg.ADMIN_PIN = "4321"
  /\ \E i, j \in DOMAIN tokens :
       /\ tokens[i].status = "COMPLETED" /\ tokens[j].status = "IN_USE"
       /\ tokens[i].batch_id = BATCH_ID /\ tokens[j].batch_id = BATCH_ID
       /\ LET r1 == adminReset(Mem, ResetRequest("4321", "batch_inuse", BATCH_ID, Undefined,
                                                 "ISSUED", <<"ISSUED">>)).st.tokens
              r2 == adminReset(Mem, ResetRequest("4321", "uuid_one", Undefined, tokens[j].uuid,
                                                 "ISSUED", <<"ISSUED">>)).st.tokens
          IN /\ r1[j].status = "ISSUED" /\ r1[i] = tokens[i]
             /\ r2 = tokens

RECURSIVE SumOver(_, _)
SumOver(f, S) ==
  IF S = {} THEN 0
  ELSE LET s == CHOOSE x \in S : TRUE IN f[s] + SumOver(f, S \ {s})

\* C20: an authorized reset returns a changed count equal to the number of tokens that
\* matched before the call and a histogram that gives, for each status a matched token
\* had before the call, how many had it; its entries sum to the count.
C20_ResetCountAndHistogram ==
  Running =>
    \A r \in ResetProbesBack :
      LET reply == adminReset(Mem, r)
          hit   == Matched(r)
      IN
      reply.code = 200 =>
        /\ reply.changed = Cardinality(hit)
        /\ DOMAIN reply.from_counts = {tokens[i].status : i \in hit}
        /\ \A s \in DOMAIN reply.from_counts :
             reply.from_counts[s] = Cardinality({i \in hit : tokens[i].status = s})
        /\ SumOver(reply.from_counts, DOMAIN reply.from_counts) = reply.changed

\* a COMPLETED and an IN_USE code are reset together: count 2, one of each in the
\* histogram
C20_Witness ==
  /\ Running
  /\ LET reply == adminReset(Mem, ResetRequest("4321", "all_batches", Undefined, Undefined,
                                              "ISSUED", <<>>))
     IN /\ reply.code = 200
        /\ reply.changed = 2
        /\ reply.from_counts = ("COMPLETED" :> 1) @@ ("IN_USE" :> 1)

\* C21: after an authorized admin reset whose target status is ISSUED every token it
\* matched has status ISSUED, claimed_at null and completed_at null, whatever its status
\* and timestamps were before.
C21_ResetToIssuedClearsTimestamps ==
  Running =>
    \A r \in ResetProbesBack :
      LET reply == adminReset(Mem, r) IN
      reply.code = 200 =>
        \A i \in Matched(r) :
          /\ reply.st.tokens[i].status = "ISSUED"
          /\ reply.st.tokens[i].claimed_at = Null
          /\ reply.st.tokens[i].completed_at = Null

\* a used code with both timestamps set and an armed code with claimed_at set are taken
\* back to ISSUED by one reset
C21_Witness ==
  /\ Running
  /\ \E i, j \in DOMAIN tokens :
       /\ tokens[i].status = "COMPLETED"
       /\ tokens[i].claimed_at # Null /\ tokens[i].completed_at # Null
       /\ tokens[j].status = "IN_USE" /\ tokens[j].claimed_at # Null
       /\ LET reply == adminReset(Mem, ResetRequest("4321", "all_batches", Undefined,
                                                   Undefined, "ISSUED", <<>>))
          IN /\ reply.code = 200
             /\ \A k \in {i, j} :
                  /\ reply.st.tokens[k].status = "ISSUED"
                  /\ reply.st.tokens[k].claimed_at = Null
                  /\ reply.st.tokens[k].completed_at = Null

\* C22: in every state reached by scans, hooks, forced relocks, restarts and admin
\* resets, a token's completed_at is non-null exactly when its status is COMPLETED.
C22_CompletedAtIffCompleted ==
  \A i \in DOMAIN Durable :
    (Durable[i].completed_at # Null) <=> (Durable[i].status = "COMPLETED")

\* C23: in every state reached by scans, hooks, forced relocks, restarts and admin
\* resets, every IN_USE token has a non-null claimed_at and every ISSUED token a null
\* claimed_at.
C23_ClaimedAtFollowsStatus ==
  \A i \in DOMAIN Durable :
    /\ Durable[i].status = "IN_USE" => Durable[i].claimed_at # Null
    /\ Durable[i].status = "ISSUED" => Durable[i].claimed_at = Null

StatusEnum == {"ISSUED", "IN_USE", "COMPLETED", "CANCELLED"}

\* C24: in every reachable state every token's status is one of ISSUED, IN_USE,
\* COMPLETED, CANCELLED; a reset whose "to" is no such word writes no status.
C24_StatusInEnum ==
  \A i \in DOMAIN Durable : Durable[i].status \in StatusEnum

\* what issuance gave each token: id, batch, credential and creation time, in store order
Identity(toks) ==
  [i \in DOMAIN toks |-> <<toks[i].uuid, toks[i].batch_id, toks[i].payload, toks[i].created_at>>]

DistinctIds(toks) == \A i, j \in DOMAIN toks : toks[i].uuid = toks[j].uuid => i = j

\* C25: no step (scan, hook, forced relock, admin reset, stats, startup reconciliation,
\* restart) adds or removes a token or changes a token's id, batch, credential or
\* creation time, and the ids are pairwise distinct in every state.
C25_IdentityFrozen ==
  /\ []DistinctIds(Durable)
  /\ [][Identity(Durable)' = Identity(Durable)]_vars

\* after a scan, a finalization and a reset the store still holds what was issued
C25_Witness ==
  /\ Running
  /\ resets = 1
  /\ \E i \in DOMAIN tokens : tokens[i].claimed_at # Null
  /\ \E st \in IssuedStores : Identity(tokens) = Identity(st)
  /\ \A b \in StatsBatches : stats(Mem, b).st = Mem

\* C26: with store writes succeeding, every step that ends with the process running and
\* changed at least one token record (accepted scan, finalization by hook, forced relock
\* of a guest session, admin reset, startup reconciliation) leaves a file that holds the
\* in-memory collection, record for record and in the same order, and nothing else.
C26_SnapshotFollowsStore ==
  [][(Running' /\ Durable' # Durable) => file' = FileJson(tokens')]_vars

\* a completed and a cancelled session, both on disk as in memory
C26_Witness ==
  /\ Running
  /\ \E i, j \in DOMAIN tokens :
       /\ tokens[i].status = "COMPLETED" /\ tokens[i].completed_at # Null
       /\ tokens[j].status = "CANCELLED" /\ tokens[j].claimed_at # Null
  /\ file = FileJson(tokens)

\* the state m without its file
InMemory(m) == [m EXCEPT !.file = FileMissing]

\* the requests put to the handlers when the writes start to fail
FaultScans == ScanPayloads
FaultHooks == {<<"session_end", "", cfg.HOOK_SECRET>>, <<"", "session_end", "WRONG">>}
FaultResets == {r \in ResetBodies : r.to = "ISSUED"}

\* the replies the handlers give in this state and the state each leaves in memory
Outcomes ==
  IF Running THEN
    << [p \in FaultScans |-> LET r == scan(Mem, p) IN <<r.code, r.error, InMemory(r.st)>>],
       [h \in FaultHooks |-> LET r == hook(Mem, h[1], h[2], h[3]) IN
                               <<r.code, r.body, InMemory(r.st)>>],
       [r \in FaultResets |-> LET a == adminReset(Mem, r) IN
                                <<a.code, a.changed, a.from_counts, InMemory(a.st)>>],
       InMemory(forceRelock(Mem)) >>
  ELSE << InMemory(whenReady(Mem)) >>

\* the file each handler leaves in this state
FilesLeft ==
  IF Running THEN
    {scan(Mem, p).st.file : p \in FaultScans} \cup
    {hook(Mem, h[1], h[2], h[3]).st.file : h \in FaultHooks} \cup
    {adminReset(Mem, r).st.file : r \in FaultResets} \cup
    {forceRelock(Mem).file}
  ELSE {whenReady(Mem).file}

\* C27: a failing store write never aborts or rejects the operation: every operation
\* gives the same reply and leaves the same in-memory state as with writes succeeding,
\* the file keeps the content it had, and a step whose write succeeds leaves a file that
\* holds the in-memory collection.
C27_FailedWriteKeepsSnapshot ==
  /\ [][(writable = "yes" /\ writable' # "yes") =>
          /\ Outcomes' = Outcomes
          /\ FilesLeft' = {file}]_vars
  /\ [][writable # "yes" => file' = file]_vars
  /\ [][(writable = "yes" /\ Running' /\ (file' # file \/ Durable' # Durable)) =>
          file' = FileJson(tokens')]_vars

\* C28: startup from a missing, blank or unparseable tokens.json completes with an empty
\* collection, the overlay shown and no session armed, and while the collection is empty
\* every guest scan is rejected and changes nothing.
C28_EmptyLoadLocked ==
  /\ (pc = "boot" /\ file.kind \in {"missing", "blank", "corrupt"}) =>
       LET s == whenReady(Mem) IN
       /\ s.tokens = <<>>
       /\ s.winVisible
       /\ s.currentTokenId = Null /\ ~s.adminSessionActive
  /\ (Running /\ tokens = <<>>) =>
       /\ currentTokenId = Null
       /\ \A p \in GuestScans :
            LET r == scan(Mem, p) IN
            r.code # 200 /\ r.token_id = Null /\ r.st = Mem

\* the station came up locked from an unparseable file and turns away a correctly
\* signed code of its batch
C28_Witness ==
  /\ Running
  /\ file.kind = "corrupt"
  /\ tokens = <<>>
  /\ Locked /\ winVisible
  /\ LET r == scan(Mem, CredentialOf("uuid-1")) IN
     r.code = 400 /\ r.error = "QR tidak dikenal"

\* credentials of the shape ciu:1|batch|id|signature
WellFormed == {p \in ScanPayloads : Len(p) = 4 /\ p[1] = "ciu:1"}

\* the signature of p is the HMAC of "<batch>.<id>" under the signing secret
SignedBySecret(p) == p[4] = "mac[" \o HMAC_SECRET \o "](" \o p[2] \o "." \o p[3] \o ")"

\* the store holds a token with exactly this id, batch and credential
Listed(p) ==
  \E i \in DOMAIN tokens :
    tokens[i].uuid = p[3] /\ tokens[i].batch_id = p[2] /\ tokens[i].payload = p

\* C29: a well-formed credential of the configured batch verifies exactly when its
\* signature is the HMAC under the signing secret or, with listed-token acceptance on,
\* when the store lists it; a credential of another batch fails with batch_mismatch
\* whatever its signature and whether or not it is listed.
C29_VerifyPaths ==
  \A p \in WellFormed :
    LET v == verifyPayload(tokens, p) IN
    IF p[2] # BATCH_ID THEN ~v.ok /\ v.err = "batch_mismatch"
    ELSE /\ v.ok <=> (SignedBySecret(p) \/ (cfg.DEV_ACCEPT_LISTED_TOKENS /\ Listed(p)))
         /\ v.ok => v.batch = p[2] /\ v.uuid = p[3]
         /\ ~v.ok => v.err = "bad_signature"

\* listed-token acceptance is on and the store lists a code signed under an old secret:
\* it verifies, a forged code of a listed id does not
C29_Witness ==
  /\ Running
  /\ cfg.DEV_ACCEPT_LISTED_TOKENS
  /\ \E i \in DOMAIN tokens :
       /\ tokens[i].batch_id = BATCH_ID
       /\ ~SignedBySecret(tokens[i].payload)
       /\ verifyPayload(tokens, tokens[i].payload).ok
  /\ verifyPayload(tokens, <<"ciu:1", BATCH_ID, "uuid-1", "forged">>).err = "bad_signature"

\* every notification the hook can be sent
HookProbes == HookQueryEvents \X HookPathEvents \X HookSecrets

\* token i was armed by the scan that last hid the overlay
ArmedByLastScan(i) == tokens[i].claimed_at = "T" \o ToString(unlockedAtMs)

\* C30: scans and notifications are handled one at a time, in any order; a notification
\* turns a token COMPLETED only if the token was IN_USE, named by the session pointer
\* and armed by a scan accepted at least the grace window earlier, and a notification
\* handled while no guest session is armed changes no token.
C30_FinalizeOnlyArmedAfterGrace ==
  Running =>
    \A h \in HookProbes :
      LET r == hook(Mem, h[1], h[2], h[3]) IN
      /\ \A i \in DOMAIN tokens :
           (r.st.tokens[i].status = "COMPLETED" /\ tokens[i].status # "COMPLETED") =>
              /\ tokens[i].status = "IN_USE"
              /\ tokens[i].uuid = currentTokenId
              /\ ArmedByLastScan(i)
              /\ now - unlockedAtMs >= GraceMs
      /\ ~Truthy(currentTokenId) => r.st.tokens = tokens

\* two codes were scanned one after the other; the grace window of the second has
\* passed: a notification completes the second and only the second
C30_Witness ==
  /\ Running
  /\ now - unlockedAtMs >= GraceMs
  /\ \E i, j \in DOMAIN tokens :
       /\ i # j
       /\ tokens[i].status = "IN_USE" /\ tokens[i].uuid = currentTokenId
       /\ tokens[j].status = "IN_USE" /\ ~ArmedByLastScan(j)
       /\ LET r == hook(Mem, "session_end", "", cfg.HOOK_SECRET) IN
          r.st.tokens[i].status = "COMPLETED" /\ r.st.tokens[j] = tokens[j]

\* C31: with a hook secret configured, a notification that carries the matching secret
\* as ?secret= or as the path piece after the event (/hook/<anything>/<secret>) is
\* handled like a notification with a valid secret: same answer, same state left.
C31_SecretInQueryOrPath ==
  (Running /\ cfg.HOOK_SECRET # "") =>
    \A q \in HookQueryEvents, w \in {"session_end", "x"} :
      LET valid   == hook(Mem, q, w, cfg.HOOK_SECRET)
          byQuery == hookGet(Mem, <<w>>, q, cfg.HOOK_SECRET)
          byPath  == hookGet(Mem, <<w, cfg.HOOK_SECRET>>, q, "")
      IN /\ byQuery = valid
         /\ byPath.code = valid.code /\ byPath.body = valid.body /\ byPath.st = valid.st

\* C32: in every state reached by scans, hooks, forced relocks and admin resets, a
\* station whose overlay is hidden has a session armed: the guest pointer is non-empty
\* or the admin flag is set.
C32_UnlockedImpliesArmed ==
  (Running /\ ~winVisible) => (Truthy(currentTokenId) \/ adminSessionActive)

\* C33: a token that is IN_USE eventually becomes COMPLETED or CANCELLED when the clock
\* advances and session-end notifications and forced relocks keep being handled, with
\* no restart and no admin reset.
C33_InUseEventuallyLeaves ==
  \A u \in AllUuids :
    (Running /\ StatusOf(u) = "IN_USE") ~> (StatusOf(u) \in {"COMPLETED", "CANCELLED"})

\* the store the station works with once it has started again from the file
AfterRestart == whenReady(Mem).tokens

\* C34: when the process dies after a guest scan was accepted, the scanned token is in
\* the store after the restart as CANCELLED or COMPLETED, never ISSUED, also when the
\* write made by the scan failed; and a code that is CANCELLED or COMPLETED is not
\* accepted again.
C34_AcceptedScanSurvivesRestart ==
  /\ [][(Running /\ ~Running') =>
          \A i \in DOMAIN tokens :
            tokens[i].claimed_at # Null =>
              \E k \in DOMAIN AfterRestart' :
                /\ AfterRestart'[k].uuid = tokens[i].uuid
                /\ AfterRestart'[k].status \in {"CANCELLED", "COMPLETED"}]_vars
  /\ [](Running =>
          \A i \in DOMAIN tokens :
            tokens[i].status \in {"CANCELLED", "COMPLETED"} =>
              scan(Mem, tokens[i].payload).code # 200)

\* what the two controllers have in common of the state m of the admin-capable one
Shared(m) ==
  [tokens |-> m.tokens, file |-> m.file, currentTokenId |-> m.currentTokenId,
   unlockedAtMs |-> m.unlockedAtMs, winVisible |-> m.winVisible]

\* C35: with no Admin QR id configured, from every state the original controller
\* reaches, the admin-capable controller started in the same state gives the same
\* answer to every scan, notification and forced relock and to startup, leaves the same
\* token records, file, pointer, unlock timestamp and overlay, and leaves its admin flag
\* false; so the two agree on every sequence of requests from the same store.
C35_ControllersAgree ==
  ~Truthy(cfg.ADMIN_QR_UUID) =>
    /\ ~adminSessionActive
    /\ pc = "boot" =>
         LET a == whenReady(Mem) IN
         Shared(a) = mainWhenReady(MainMem) /\ ~a.adminSessionActive
    /\ Running =>
         /\ \A p \in ScanPayloads :
              LET a == scan(Mem, p)
                  b == mainScan(MainMem, p)
              IN /\ <<a.code, a.error, a.token_id, a.admin>> = <<b.code, b.error, b.token_id, b.admin>>
                 /\ Shared(a.st) = b.st
                 /\ ~a.st.adminSessionActive
         /\ \A h \in HookProbes :
              LET a == hook(Mem, h[1], h[2], h[3])
                  b == mainHook(MainMem, h[1], h[2], h[3])
              IN /\ <<a.code, a.body>> = <<b.code, b.body>>
                 /\ Shared(a.st) = b.st
                 /\ ~a.st.adminSessionActive
         /\ LET a == forceRelock(Mem) IN
            Shared(a) = mainForceRelock(MainMem) /\ ~a.adminSessionActive

\* the original controller has finished one session and has another code armed past
\* the grace window: both controllers complete it alike
C35_Witness ==
  /\ Running
  /\ ~Truthy(cfg.ADMIN_QR_UUID)
  /\ Truthy(currentTokenId)
  /\ now - unlockedAtMs >= GraceMs
  /\ \E i \in DOMAIN tokens : tokens[i].status \in {"COMPLETED", "CANCELLED"}
  /\ LET a == hook(Mem, "session_end", "", cfg.HOOK_SECRET)
         b == mainHook(MainMem, "session_end", "", cfg.HOOK_SECRET)
     IN /\ Shared(a.st) = b.st
        /\ b.st.tokens # tokens
        /\ b.st.winVisible

\* C36: for every batch id B, token id U and secret S, the credential the issuance tool
\* builds is verified by a station configured with batch B and secret S through the
\* signature alone, giving back B and U; under another secret it fails with
\* bad_signature and under another configured batch with batch_mismatch.
C36_IssueVerifyRoundTrip ==
  \A B \in CodecBatches, U \in CodecUuids, S \in CodecSecrets :
    LET v == verifyPayloadWith(cfg.BATCH_ID, cfg.HMAC_SECRET, FALSE, tokens,
                               toolPayload(B, U, S))
    IN CASE cfg.BATCH_ID # B    -> ~v.ok /\ v.err = "batch_mismatch"
         [] cfg.HMAC_SECRET # S -> ~v.ok /\ v.err = "bad_signature"
         [] OTHER               -> v.ok /\ v.batch = B /\ v.uuid = U
====
